---- MODULE Spec2Model ----
(***************************************************************************)
(* Model of the conversion engine of nuancedtire/convert                   *)
(* (src/lib/converter.ts): the handler registry and its catalog, the       *)
(* route discovery over the capability graph, and the staged executor.     *)
(***************************************************************************)
EXTENDS Integers, Sequences, FiniteSets, TLC

(***************************************************************************)
(* Bounds of the model.                                                    *)
(***************************************************************************)
\* number of handler classes configured in handlerClasses
NumHandlers == 2
\* the same, for the registries findConversionPath is tried on by itself
PathHandlers == 3
\* largest maxDepth argument tried on findConversionPath
MaxHopsTried == 4
\* largest number of files handed to one convert() request
MaxFiles == 2
\* largest number of handler classes in the registries initializeConverter
\* is called on again
ReinitHandlers == 2
\* number of handler classes in the registries with competing handlers
TieHandlers == 3
UiHandlers == 2
ChainHandlers == 4

(***************************************************************************)
(* FileFormat values (types.ts).                                           *)
(***************************************************************************)
Fmt(name, format, extension, mime, from, to, internal, category) ==
  [name |-> name, format |-> format, extension |-> extension, mime |-> mime,
   from |-> from, to |-> to, internal |-> internal, category |-> category]

\* A handler class: the fields a constructed instance has, and how its
\* init() settles: "ready" (ready = true), "notready" (returns with ready
\* still false, as PdfToImgHandler.init does outside a browser), "throws".
HandlerClass(name, formats, outcome) ==
  [name |-> name, supportedFormats |-> formats, init |-> outcome]

\* The handler classes the registries of the model are configured from.
HandlerClassPool ==
  << HandlerClass("canvasToBlob",
       << Fmt("Portable Network Graphics", "png", "png", "image/png", TRUE, TRUE, "png", "image"),
          Fmt("JPEG Image", "jpeg", "jpg", "image/jpeg", TRUE, TRUE, "jpeg", "image"),
          Fmt("ICO Icon", "ico", "ico", "image/x-icon", TRUE, FALSE, "ico", "image") >>,
       "ready"),
     HandlerClass("htmlToSvg",
       << Fmt("HyperText Markup Language", "html", "html", "text/html", TRUE, FALSE, "html", "document"),
          Fmt("SVG Vector", "svg", "svg", "image/svg+xml", FALSE, TRUE, "svg", "image") >>,
       "ready"),
     HandlerClass("svgRaster",
       << Fmt("SVG Vector", "svg", "svg", "image/svg+xml", TRUE, FALSE, "SVG", "image"),
          Fmt("Portable Network Graphics", "png", "png", "image/png", FALSE, TRUE, "PNG", "image") >>,
       "ready"),
     HandlerClass("PDF to Image",
       << Fmt("Portable Document Format", "pdf", "pdf", "application/pdf", TRUE, FALSE, "pdf", "document"),
          Fmt("Portable Network Graphics", "png", "png", "image/png", FALSE, TRUE, "png", "image"),
          Fmt("JPEG Image", "jpg", "jpg", "image/jpeg", FALSE, TRUE, "jpg", "image") >>,
       "notready"),
     HandlerClass("jpegToPdf",
       << Fmt("JPEG Image", "jpeg", "jpg", "image/jpeg", TRUE, FALSE, "JPEG", "image"),
          Fmt("Portable Document Format", "pdf", "pdf", "application/pdf", FALSE, TRUE, "PDF", "document") >>,
       "ready"),
     HandlerClass("pdfToHtml",
       << Fmt("Portable Document Format", "pdf", "pdf", "application/pdf", TRUE, FALSE, "pdf", "document"),
          Fmt("HyperText Markup Language", "html", "html", "text/html", FALSE, TRUE, "html", "document") >>,
       "ready"),
     HandlerClass("broken",
       << Fmt("Portable Network Graphics", "png", "png", "image/png", TRUE, TRUE, "broken-png", "image"),
          Fmt("SVG Vector", "svg", "svg", "image/svg+xml", TRUE, TRUE, "broken-svg", "image") >>,
       "throws") >>

\* The configurations of handlerClasses: n distinct classes in any order.
Registries(n) ==
  { r \in [1..n -> 1..Len(HandlerClassPool)] :
      \A i, j \in 1..n : i # j => r[i] # r[j] }

ClassesOf(r) == [i \in DOMAIN r |-> HandlerClassPool[r[i]]]

\* The callers of initializeConverter: the effect ConverterApp runs on mount,
\* and convert() when it finds the registry not initialized.
InitCallers == {"app", "convert"}

(***************************************************************************)
(* State.                                                                  *)
(***************************************************************************)
VARIABLES
  handlerClasses,   \* the configured handler classes, in registration order
  handlers,         \* module-level handlers: the instances registered so far
  allFormats,       \* module-level allFormats: the catalog
  initialized,      \* module-level initialized flag
  initCalls,        \* the calls of initializeConverter: where each one stands
  req,              \* the convert() request: its locals, result and logs
  \* one call of findConversionPath, run one loop iteration at a time
  inputFormat, outputFormat, maxDepth,
  searchPc,         \* "idle", "bfs", "found", "notfound"
  visited, queue,
  enqueued,         \* ghost: the mimes pushed on the queue, in order
  searchResult,
  ui                \* ConverterApp's state: the selection, the dialog, the
                    \* last findFormatByMime lookup

vars == << handlerClasses, handlers, allFormats, initialized, initCalls, req,
           inputFormat, outputFormat, maxDepth, searchPc, visited, queue,
           enqueued, searchResult, ui >>

(***************************************************************************)
(* Registry initialization, as one uninterrupted run of                    *)
(* initializeConverter (the state a single sequential run leaves).         *)
(***************************************************************************)
\* new HandlerClass() followed by a settled init(): the instance's fields
Instance(class) ==
  [name |-> class.name, supportedFormats |-> class.supportedFormats,
   ready |-> (class.init = "ready")]

\* allFormats.some((f) => f.mime === format.mime && f.format === format.format)
Exists(formats, format) ==
  \E k \in 1..Len(formats) :
    formats[k].mime = format.mime /\ formats[k].format = format.format

\* mutant of CollectFormats: a later declaration of a pair replaces the entry
RECURSIVE CollectFormatsLastWins(_, _, _)
CollectFormatsLastWins(formats, supported, fi) ==
  IF fi > Len(supported) THEN formats
  ELSE CollectFormatsLastWins(
         IF Exists(formats, supported[fi])
         THEN [k \in 1..Len(formats) |->
                 IF formats[k].mime = supported[fi].mime
                    /\ formats[k].format = supported[fi].format
                 THEN supported[fi] ELSE formats[k]]
         ELSE Append(formats, supported[fi]),
         supported, fi + 1)

\* the dedup loop over one handler's supportedFormats, from index fi on
RECURSIVE CollectFormats(_, _, _)
CollectFormats(formats, supported, fi) ==
  IF fi > Len(supported) THEN formats
  ELSE CollectFormats(
         IF Exists(formats, supported[fi]) THEN formats
         ELSE Append(formats, supported[fi]),
         supported, fi + 1)

\* order = ['image', 'video', 'audio', 'document', 'archive', 'other']
CategoryOrder(category) ==
  CASE category = "image" -> 0
    [] category = "video" -> 1
    [] category = "audio" -> 2
    [] category = "document" -> 3
    [] category = "archive" -> 4
    [] OTHER -> 5

\* a.name.localeCompare(b.name) over the names the handler classes use:
\* the rank of a name in their collation order
NameRank(name) ==
  CASE name = "Animated GIF" -> 0
    [] name = "GIF Animation" -> 1
    [] name = "Hypertext Markup Language" -> 2
    [] name = "HyperText Markup Language" -> 3
    [] name = "ICO Icon" -> 4
    [] name = "Joint Photographic Experts Group JFIF format" -> 5
    [] name = "JPEG Image" -> 6
    [] name = "MP3 Audio" -> 7
    [] name = "Portable Document Format" -> 8
    [] name = "Portable Network Graphics" -> 9
    [] name = "Scalable Vector Graphics" -> 10
    [] name = "SVG Vector" -> 11
    [] name = "WAV Audio" -> 12
    [] OTHER -> 13

\* the comparator of allFormats.sort: a sorts strictly before b
SortsBefore(a, b) ==
  IF a.category # b.category
  THEN CategoryOrder(a.category) < CategoryOrder(b.category)
  ELSE NameRank(a.name) < NameRank(b.name)

\* stable insertion of f into the sorted sequence s
RECURSIVE InsertSorted(_, _)
InsertSorted(s, f) ==
  IF s = << >> THEN << f >>
  ELSE IF SortsBefore(f, Head(s)) THEN << f >> \o s
  ELSE << Head(s) >> \o InsertSorted(Tail(s), f)

\* allFormats.sort(...): Array.prototype.sort is stable
RECURSIVE SortFormats(_)
SortFormats(s) ==
  IF s = << >> THEN << >>
  ELSE InsertSorted(SortFormats(SubSeq(s, 1, Len(s) - 1)), s[Len(s)])

\* the for loop of initializeConverter from class index i on, run without
\* interleaving: st = [handlers, allFormats]
RECURSIVE InitLoop(_, _, _)
InitLoop(classes, i, st) ==
  IF i > Len(classes) THEN st
  ELSE IF classes[i].init = "throws" THEN InitLoop(classes, i + 1, st)
  ELSE InitLoop(classes, i + 1,
         [handlers |-> Append(st.handlers, Instance(classes[i])),
          allFormats |-> CollectFormats(st.allFormats,
                                        classes[i].supportedFormats, 1)])

InitializeConverterRun(classes) ==
  LET st == InitLoop(classes, 1, [handlers |-> << >>, allFormats |-> << >>])
  IN [handlers |-> st.handlers, allFormats |-> SortFormats(st.allFormats)]

(***************************************************************************)
(* Route discovery: findHandler and findConversionPath.  A step holds its  *)
(* handler as the handler's index in the handlers list.                    *)
(***************************************************************************)
\* handler.supportedFormats.some((f) => f.mime === mime && f.from)
CanInput(handler, mime) ==
  \E k \in 1..Len(handler.supportedFormats) :
    handler.supportedFormats[k].mime = mime /\ handler.supportedFormats[k].from

\* mutant of CanOutput: the to flag is not looked at
CanOutputAnyFlag(handler, mime) ==
  \E k \in 1..Len(handler.supportedFormats) :
    handler.supportedFormats[k].mime = mime

\* handler.supportedFormats.some((f) => f.mime === mime && f.to)
CanOutput(handler, mime) ==
  \E k \in 1..Len(handler.supportedFormats) :
    handler.supportedFormats[k].mime = mime /\ handler.supportedFormats[k].to

\* mutant of Converts: the ready flag is not looked at
ConvertsNotReady(handler, inFmt, outFmt) ==
  /\ CanInput(handler, inFmt.mime)
  /\ CanOutput(handler, outFmt.mime)

\* the predicate of handlers.find in findHandler
Converts(handler, inFmt, outFmt) ==
  /\ handler.ready
  /\ CanInput(handler, inFmt.mime)
  /\ CanOutput(handler, outFmt.mime)

\* mutant of FindHandler: the last handler that converts is taken
FindHandlerLast(hs, inFmt, outFmt) ==
  IF \E i \in 1..Len(hs) : Converts(hs[i], inFmt, outFmt)
  THEN CHOOSE i \in 1..Len(hs) :
         /\ Converts(hs[i], inFmt, outFmt)
         /\ \A j \in (i + 1)..Len(hs) : ~Converts(hs[j], inFmt, outFmt)
  ELSE 0

\* findHandler: the index of the first handler that converts, 0 for undefined
FindHandler(hs, inFmt, outFmt) ==
  IF \E i \in 1..Len(hs) : Converts(hs[i], inFmt, outFmt)
  THEN CHOOSE i \in 1..Len(hs) :
         /\ Converts(hs[i], inFmt, outFmt)
         /\ \A j \in 1..(i - 1) : ~Converts(hs[j], inFmt, outFmt)
  ELSE 0

Step(handler, inFmt, outFmt) ==
  [handler |-> handler, inputFormat |-> inFmt, outputFormat |-> outFmt]

NoPath == [found |-> FALSE, steps |-> << >>]
Path(steps) == [found |-> TRUE, steps |-> steps]

\* mutant of DepthReached: off by one, entries of maxDepth - 1 steps are dropped
DepthReachedEarly(current, depth) == Len(current.path) + 1 >= depth

\* mutant of DepthReached: off by one, entries of maxDepth steps are extended
DepthReachedLate(current, depth) == Len(current.path) > depth

\* if (current.path.length >= maxDepth) continue
DepthReached(current, depth) == Len(current.path) >= depth

\* mutant of Shift: the entry is read and left on the queue
ShiftKeep(q) == [current |-> Head(q), rest |-> q]

\* queue.shift(): the entry taken and the queue left
Shift(q) == [current |-> Head(q), rest |-> Tail(q)]

\* mutant of Enqueue: the mime is pushed without being added to visited
EnqueueUnmarked(st, format, path) ==
  [visited |-> st.visited,
   queue |-> Append(st.queue, [format |-> format, path |-> path]),
   enqueued |-> Append(st.enqueued, format.mime)]

\* visited.add(format.mime); queue.push({format, path}) on st = [visited, queue, enqueued]
Enqueue(st, format, path) ==
  [visited |-> st.visited \cup {format.mime},
   queue |-> Append(st.queue, [format |-> format, path |-> path]),
   enqueued |-> Append(st.enqueued, format.mime)]

\* the inner loop of the seeding pass (lines 251-260) over handler hi's
\* formats from index fi on
RECURSIVE SeedFormats(_, _, _, _, _)
SeedFormats(hs, hi, fi, inFmt, st) ==
  IF fi > Len(hs[hi].supportedFormats) THEN st
  ELSE LET format == hs[hi].supportedFormats[fi] IN
    IF ~format.to \/ format.mime = inFmt.mime
    THEN SeedFormats(hs, hi, fi + 1, inFmt, st)
    ELSE IF format.mime \in st.visited
    THEN SeedFormats(hs, hi, fi + 1, inFmt, st)
    ELSE SeedFormats(hs, hi, fi + 1, inFmt,
           Enqueue(st, format, << Step(hi, inFmt, format) >>))

\* the seeding pass (lines 243-261) over the handlers from index hi on
RECURSIVE SeedHandlers(_, _, _, _)
SeedHandlers(hs, hi, inFmt, st) ==
  IF hi > Len(hs) THEN st
  ELSE IF ~hs[hi].ready THEN SeedHandlers(hs, hi + 1, inFmt, st)
  ELSE IF ~CanInput(hs[hi], inFmt.mime) THEN SeedHandlers(hs, hi + 1, inFmt, st)
  ELSE SeedHandlers(hs, hi + 1, inFmt, SeedFormats(hs, hi, 1, inFmt, st))

\* the inner loop of the expansion pass (lines 291-302)
RECURSIVE ExpandFormats(_, _, _, _, _)
ExpandFormats(hs, hi, fi, current, st) ==
  IF fi > Len(hs[hi].supportedFormats) THEN st
  ELSE LET format == hs[hi].supportedFormats[fi] IN
    IF ~format.to \/ format.mime \in st.visited
    THEN ExpandFormats(hs, hi, fi + 1, current, st)
    ELSE ExpandFormats(hs, hi, fi + 1, current,
           Enqueue(st, format,
                   Append(current.path, Step(hi, current.format, format))))

\* the expansion pass (lines 283-303) over the handlers from index hi on
RECURSIVE ExpandHandlers(_, _, _, _)
ExpandHandlers(hs, hi, current, st) ==
  IF hi > Len(hs) THEN st
  ELSE IF ~hs[hi].ready THEN ExpandHandlers(hs, hi + 1, current, st)
  ELSE IF ~CanInput(hs[hi], current.format.mime)
  THEN ExpandHandlers(hs, hi + 1, current, st)
  ELSE ExpandHandlers(hs, hi + 1, current, ExpandFormats(hs, hi, 1, current, st))

\* mutant of SearchStart: the maxDepth <= 1 return comes before the direct check
SearchStartDepthFirst(hs, inFmt, outFmt, depth) ==
  LET directHandler == FindHandler(hs, inFmt, outFmt)
      seeded == SeedHandlers(hs, 1, inFmt,
                  [visited |-> {}, queue |-> << >>, enqueued |-> << >>])
  IN IF depth <= 1
     THEN [pc |-> "notfound", visited |-> {}, queue |-> << >>,
           enqueued |-> << >>, result |-> NoPath]
     ELSE IF directHandler # 0
     THEN [pc |-> "found", visited |-> {}, queue |-> << >>, enqueued |-> << >>,
           result |-> Path(<< Step(directHandler, inFmt, outFmt) >>)]
     ELSE [pc |-> "bfs", visited |-> seeded.visited, queue |-> seeded.queue,
           enqueued |-> seeded.enqueued, result |-> NoPath]

\* The search as a record [pc, visited, queue, enqueued, result].
\* Lines 219-261: the direct check, the maxDepth <= 1 return and the seeding.
SearchStart(hs, inFmt, outFmt, depth) ==
  LET directHandler == FindHandler(hs, inFmt, outFmt)
      seeded == SeedHandlers(hs, 1, inFmt,
                  [visited |-> {}, queue |-> << >>, enqueued |-> << >>])
  IN IF directHandler # 0
     THEN [pc |-> "found", visited |-> {}, queue |-> << >>, enqueued |-> << >>,
           result |-> Path(<< Step(directHandler, inFmt, outFmt) >>)]
     ELSE IF depth <= 1
     THEN [pc |-> "notfound", visited |-> {}, queue |-> << >>,
           enqueued |-> << >>, result |-> NoPath]
     ELSE [pc |-> "bfs", visited |-> seeded.visited, queue |-> seeded.queue,
           enqueued |-> seeded.enqueued, result |-> NoPath]

\* Lines 263-306: the loop test and one iteration of the while loop.
SearchIterate(hs, outFmt, depth, s) ==
  IF Len(s.queue) = 0
  THEN [s EXCEPT !.pc = "notfound", !.result = NoPath]
  ELSE LET current == Shift(s.queue).current
           rest == Shift(s.queue).rest
           handlerToOutput == FindHandler(hs, current.format, outFmt)
           expanded == ExpandHandlers(hs, 1, current,
                         [visited |-> s.visited, queue |-> rest,
                          enqueued |-> s.enqueued])
       IN IF DepthReached(current, depth)
          THEN [s EXCEPT !.queue = rest]
          ELSE IF handlerToOutput # 0
          THEN [s EXCEPT !.pc = "found", !.queue = rest,
                         !.result = Path(Append(current.path,
                             Step(handlerToOutput, current.format, outFmt)))]
          ELSE [s EXCEPT !.visited = expanded.visited,
                         !.queue = expanded.queue,
                         !.enqueued = expanded.enqueued]

\* findConversionPath run to its return
RECURSIVE SearchRun(_, _, _, _)
SearchRun(hs, outFmt, depth, s) ==
  IF s.pc # "bfs" THEN s.result
  ELSE SearchRun(hs, outFmt, depth, SearchIterate(hs, outFmt, depth, s))

FindConversionPath(hs, inFmt, outFmt, depth) ==
  SearchRun(hs, outFmt, depth, SearchStart(hs, inFmt, outFmt, depth))

(***************************************************************************)
(* findConversionPath as a state machine over an initialized registry:     *)
(* one call, its while loop run one iteration per step.                    *)
(***************************************************************************)
NoFormat == Fmt("", "", "", "", FALSE, FALSE, "", "")

registryVars == << handlerClasses, handlers, allFormats, initialized >>

\* no initializeConverter call has been made
InitCallsIdle == initCalls = [c \in InitCallers |-> [pc |-> "idle", i |-> 0]]

NoResult ==
  [success |-> FALSE,
   message |-> [kind |-> "", step |-> 0, error |-> "", from |-> "", to |-> ""],
   hasPath |-> FALSE, path |-> << >>, hasFiles |-> FALSE, files |-> << >>]

\* findFormatByMime has not been called
NoLookup == [mime |-> "", found |-> FALSE, format |-> NoFormat]

\* ConverterApp as mounted: no files, no formats selected, the dialog closed
UiIdle ==
  [files |-> [count |-> 0, type |-> ""], inputFormat |-> NoFormat,
   outputFormat |-> NoFormat, modalOpen |-> FALSE, lookup |-> NoLookup]

\* no convert() request has been made
IdleRequest ==
  [pc |-> "idle", files |-> << >>, inputFormat |-> NoFormat,
   outputFormat |-> NoFormat, fileIndex |-> 0, currentFiles |-> << >>,
   path |-> << >>, stepIndex |-> 0, pathFormats |-> << >>,
   result |-> NoResult, progress |-> << >>, calls |-> << >>, routed |-> 0]
searchVars == << inputFormat, outputFormat, maxDepth, searchPc, visited, queue,
                 enqueued, searchResult >>

SearchIdle ==
  /\ inputFormat = NoFormat
  /\ outputFormat = NoFormat
  /\ maxDepth = 0
  /\ searchPc = "idle"
  /\ visited = {}
  /\ queue = << >>
  /\ enqueued = << >>
  /\ searchResult = NoPath

InitPath ==
  /\ \E r \in Registries(PathHandlers) :
       /\ handlerClasses = ClassesOf(r)
       /\ handlers = InitializeConverterRun(ClassesOf(r)).handlers
       /\ allFormats = InitializeConverterRun(ClassesOf(r)).allFormats
  /\ initialized = TRUE
  /\ InitCallsIdle
  /\ req = IdleRequest
  /\ SearchIdle
  /\ ui = UiIdle

\* findConversionPath(inFmt, outFmt, depth) is called: lines 219-261
FindCall ==
  /\ searchPc = "idle"
  /\ \E a \in 1..Len(allFormats), b \in 1..Len(allFormats), depth \in 0..MaxHopsTried :
       /\ allFormats[a].mime # allFormats[b].mime
       /\ LET s == SearchStart(handlers, allFormats[a], allFormats[b], depth) IN
            /\ inputFormat' = allFormats[a]
            /\ outputFormat' = allFormats[b]
            /\ maxDepth' = depth
            /\ searchPc' = s.pc
            /\ visited' = s.visited
            /\ queue' = s.queue
            /\ enqueued' = s.enqueued
            /\ searchResult' = s.result
  /\ UNCHANGED << registryVars, initCalls, req, ui >>

\* one test of the while condition and one iteration: lines 263-306
FindIterate ==
  /\ searchPc = "bfs"
  /\ LET s == SearchIterate(handlers, outputFormat, maxDepth,
                [pc |-> searchPc, visited |-> visited, queue |-> queue,
                 enqueued |-> enqueued, result |-> searchResult]) IN
       /\ searchPc' = s.pc
       /\ visited' = s.visited
       /\ queue' = s.queue
       /\ enqueued' = s.enqueued
       /\ searchResult' = s.result
  /\ UNCHANGED << inputFormat, outputFormat, maxDepth >>
  /\ UNCHANGED << registryVars, initCalls, req, ui >>

NextPath == FindCall \/ FindIterate

SpecPath == InitPath /\ [][NextPath]_vars

\* the call, once made, keeps running: the loop is synchronous code
SpecPathLive == InitPath /\ [][NextPath]_vars /\ WF_vars(NextPath)

(***************************************************************************)
(* findConversionPath over registries in which several handlers declare    *)
(* the same conversions.                                                   *)
(***************************************************************************)
\* CanvasToBlobHandler with the svg input it also declares
CanvasToBlobWithSvg ==
  HandlerClass("canvasToBlob",
    << Fmt("Portable Network Graphics", "png", "png", "image/png", TRUE, TRUE, "png", "image"),
       Fmt("JPEG Image", "jpeg", "jpg", "image/jpeg", TRUE, TRUE, "jpeg", "image"),
       Fmt("SVG Vector", "svg", "svg", "image/svg+xml", TRUE, FALSE, "svg", "image"),
       Fmt("ICO Icon", "ico", "ico", "image/x-icon", TRUE, FALSE, "ico", "image") >>,
    "ready")

\* SvgHandler
SvgHandlerClass ==
  HandlerClass("SVG Handler",
    << Fmt("Scalable Vector Graphics", "svg", "svg", "image/svg+xml", TRUE, TRUE, "svg", "image"),
       Fmt("Hypertext Markup Language", "html", "html", "text/html", TRUE, FALSE, "html", "document"),
       Fmt("Portable Network Graphics", "png", "png", "image/png", FALSE, TRUE, "png", "image"),
       Fmt("JPEG Image", "jpg", "jpg", "image/jpeg", FALSE, TRUE, "jpg", "image") >>,
    "ready")

\* ImageMagickHandler after a successful init(): formats as Magick reports
\* them, the prioritized ones first
ImageMagickLoaded ==
  HandlerClass("ImageMagick",
    << Fmt("Portable Network Graphics", "png", "png", "image/png", TRUE, TRUE, "PNG", "image"),
       Fmt("Joint Photographic Experts Group JFIF format", "jpeg", "jpeg", "image/jpeg", TRUE, TRUE, "JPEG", "image"),
       Fmt("Portable Document Format", "pdf", "pdf", "application/pdf", FALSE, TRUE, "PDF", "document") >>,
    "ready")

\* the classes above, jpegToPdf, htmlToSvg and the handler that is not ready
TieClassPool ==
  << CanvasToBlobWithSvg, SvgHandlerClass, ImageMagickLoaded,
     HandlerClassPool[5], HandlerClassPool[2], HandlerClassPool[4] >>

\* TieHandlers distinct classes of TieClassPool in any order
TieRegistries ==
  { [i \in 1..TieHandlers |-> TieClassPool[r[i]]] :
      r \in { q \in [1..TieHandlers -> 1..Len(TieClassPool)] :
                \A i, j \in 1..TieHandlers : i # j => q[i] # q[j] } }

InitTie ==
  /\ \E classes \in TieRegistries :
       /\ handlerClasses = classes
       /\ handlers = InitializeConverterRun(classes).handlers
       /\ allFormats = InitializeConverterRun(classes).allFormats
  /\ initialized = TRUE
  /\ InitCallsIdle
  /\ req = IdleRequest
  /\ SearchIdle
  /\ ui = UiIdle

SpecTie == InitTie /\ [][NextPath]_vars

(***************************************************************************)
(* The capability graph, stated from the handlers' declarations alone.     *)
(***************************************************************************)
DeclaresFrom(h, mime) ==
  \E k \in DOMAIN h.supportedFormats :
    h.supportedFormats[k].mime = mime /\ h.supportedFormats[k].from = TRUE

DeclaresTo(h, mime) ==
  \E k \in DOMAIN h.supportedFormats :
    h.supportedFormats[k].mime = mime /\ h.supportedFormats[k].to = TRUE

Bridges(h, a, b) == h.ready = TRUE /\ DeclaresFrom(h, a) /\ DeclaresTo(h, b)

Edge(a, b) == \E i \in DOMAIN handlers : Bridges(handlers[i], a, b)

Mimes ==
  UNION { { handlers[i].supportedFormats[k].mime :
              k \in DOMAIN handlers[i].supportedFormats } :
          i \in DOMAIN handlers }

\* breadth-first layers over the capability graph: the number of edges of a
\* shortest route from the layer `frontier` (n edges away from the source)
\* to dst, 0 when dst cannot be reached
RECURSIVE HopsFrom(_, _, _, _)
HopsFrom(frontier, seen, dst, n) ==
  IF dst \in frontier THEN n
  ELSE IF frontier = {} THEN 0
  ELSE LET next == { b \in Mimes \ seen : \E a \in frontier : Edge(a, b) }
       IN HopsFrom(next, seen \cup next, dst, n + 1)

\* the number of steps of a shortest route from src to dst (src # dst),
\* 0 when there is none
ShortestHops(src, dst) == HopsFrom({src}, {src}, dst, 0)

SearchReturned == searchPc \in {"found", "notfound"}

(***************************************************************************)
(* Claims on route discovery.                                              *)
(***************************************************************************)
\* C1: when some ready handler in the registry declares the source mime with
\* from=true and the destination mime with to=true, findConversionPath returns,
\* for every maxHops, a path of exactly one step whose handler is a ready
\* handler declaring both.
C1_DirectRoute ==
  (SearchReturned /\ Edge(inputFormat.mime, outputFormat.mime)) =>
    /\ searchResult.found
    /\ Len(searchResult.steps) = 1
    /\ searchResult.steps[1].handler \in DOMAIN handlers
    /\ Bridges(handlers[searchResult.steps[1].handler],
               inputFormat.mime, outputFormat.mime)

\* C1 witness: a direct route was asked for with maxHops = 0 and returned
C1_Witness ==
  /\ SearchReturned
  /\ Edge(inputFormat.mime, outputFormat.mime)
  /\ maxDepth = 0
  /\ Len(searchResult.steps) = 1

\* C2: when the shortest route from the source mime to the destination mime
\* has k steps and maxHops >= k, findConversionPath returns a path of exactly
\* k steps.
C2_ShortestPath ==
  LET k == ShortestHops(inputFormat.mime, outputFormat.mime) IN
  (SearchReturned /\ k >= 1 /\ maxDepth >= k) =>
    (searchResult.found /\ Len(searchResult.steps) = k)

\* C2 witness: a shortest route of three steps was found under maxHops = 4
C2_Witness ==
  /\ SearchReturned
  /\ ShortestHops(inputFormat.mime, outputFormat.mime) = 3
  /\ maxDepth = 4
  /\ Len(searchResult.steps) = 3

\* C3 as stated: for every maxHops >= 0 no returned path has more than
\* maxHops steps, and a shortest route longer than maxHops yields null.
C3_HopBoundFromZero ==
  LET k == ShortestHops(inputFormat.mime, outputFormat.mime) IN
  SearchReturned =>
    /\ searchResult.found => Len(searchResult.steps) <= maxDepth
    /\ (k >= 1 /\ maxDepth < k) => ~searchResult.found

\* C3 amended: for every maxHops >= 0 no returned path has more than
\* max(maxHops, 1) steps, and a shortest route of more than max(maxHops, 1)
\* steps yields null: the direct one-step route is returned whatever maxHops
\* is, and beyond it the bound is maxHops.
C3_HopBound ==
  LET k == ShortestHops(inputFormat.mime, outputFormat.mime)
      bound == IF maxDepth < 1 THEN 1 ELSE maxDepth
  IN SearchReturned =>
       /\ searchResult.found => Len(searchResult.steps) <= bound
       /\ (k >= 1 /\ bound < k) => ~searchResult.found

\* C3 witness: a route of three steps exists, maxHops = 2, and null came back
\* after the loop had run
C3_Witness ==
  /\ searchPc = "notfound"
  /\ ShortestHops(inputFormat.mime, outputFormat.mime) = 3
  /\ maxDepth = 2
  /\ Len(enqueued) >= 1

\* C4: every returned path is a chain of at least one step from the source
\* mime to the destination mime, each step's output mime the next step's
\* input mime, each step's handler in the registry and declaring the step's
\* input mime with from=true and its output mime with to=true.
C4_ValidChain ==
  (SearchReturned /\ searchResult.found) =>
    LET steps == searchResult.steps IN
    /\ Len(steps) >= 1
    /\ steps[1].inputFormat.mime = inputFormat.mime
    /\ steps[Len(steps)].outputFormat.mime = outputFormat.mime
    /\ \A i \in 1..(Len(steps) - 1) :
         steps[i].outputFormat.mime = steps[i + 1].inputFormat.mime
    /\ \A i \in 1..Len(steps) :
         /\ steps[i].handler \in DOMAIN handlers
         /\ DeclaresFrom(handlers[steps[i].handler], steps[i].inputFormat.mime)
         /\ DeclaresTo(handlers[steps[i].handler], steps[i].outputFormat.mime)

\* C4 witness: a path of three steps was returned
C4_Witness ==
  /\ SearchReturned
  /\ searchResult.found
  /\ Len(searchResult.steps) = 3

\* C5: every call of findConversionPath returns (a path or null), also over
\* capability graphs with cycles.
C5_Terminates == <>SearchReturned

\* C5 witness: the search returned null after enqueuing both mimes of a
\* two-cycle a -> b -> a
C5_Witness ==
  /\ searchPc = "notfound"
  /\ \E i, j \in DOMAIN enqueued :
       /\ i # j
       /\ Edge(enqueued[i], enqueued[j])
       /\ Edge(enqueued[j], enqueued[i])

\* C16: every step of a returned path (direct, seeding, expansion or
\* bridging step) and of every path held on the queue uses a registered
\* handler whose ready flag is true.
C16_ReadyHandlersOnly ==
  /\ (SearchReturned /\ searchResult.found) =>
       \A k \in DOMAIN searchResult.steps :
         /\ searchResult.steps[k].handler \in DOMAIN handlers
         /\ handlers[searchResult.steps[k].handler].ready = TRUE
  /\ \A q \in DOMAIN queue :
       \A k \in DOMAIN queue[q].path :
         /\ queue[q].path[k].handler \in DOMAIN handlers
         /\ handlers[queue[q].path[k].handler].ready = TRUE

\* C16 witness: a two-step path was returned over a registry in which a
\* handler that is not ready declares the source mime as input and stands
\* before the handler of the first step
C16_Witness ==
  /\ SearchReturned
  /\ searchResult.found
  /\ Len(searchResult.steps) = 2
  /\ \E i \in DOMAIN handlers :
       /\ handlers[i].ready = FALSE
       /\ DeclaresFrom(handlers[i], inputFormat.mime)
       /\ i < searchResult.steps[1].handler

\* the earliest registered ready handler that declares a as input and b as
\* output (there is one)
EarliestBridge(a, b) ==
  CHOOSE i \in DOMAIN handlers :
    /\ Bridges(handlers[i], a, b)
    /\ \A j \in 1..(i - 1) : ~Bridges(handlers[j], a, b)

\* the first descriptor in declaration order that handler h declares as an
\* output with the given mime (there is one)
FirstOutput(h, mime) ==
  h.supportedFormats[CHOOSE k \in DOMAIN h.supportedFormats :
    /\ h.supportedFormats[k].mime = mime /\ h.supportedFormats[k].to = TRUE
    /\ \A j \in 1..(k - 1) :
         ~(h.supportedFormats[j].mime = mime /\ h.supportedFormats[j].to = TRUE)]

\* C21: every step of a returned path, the direct step included, uses the
\* earliest registered ready handler able to bridge its two mimes, an
\* intermediate step's output descriptor is that handler's first declaration
\* of the mime as an output, and a multi-hop route leaves through the
\* first-enqueued mime from which the destination can be bridged.
C21_TieBreak ==
  (SearchReturned /\ searchResult.found) =>
    LET steps == searchResult.steps
        n == Len(steps)
    IN /\ \A k \in 1..n :
            steps[k].handler =
              EarliestBridge(steps[k].inputFormat.mime, steps[k].outputFormat.mime)
       /\ \A k \in 1..(n - 1) :
            steps[k].outputFormat =
              FirstOutput(handlers[steps[k].handler], steps[k].outputFormat.mime)
       /\ n >= 2 =>
            \E p \in DOMAIN enqueued :
              /\ enqueued[p] = steps[n].inputFormat.mime
              /\ \A j \in 1..(p - 1) : ~Edge(enqueued[j], outputFormat.mime)

\* C21 witness: a two-step path was returned where two handlers can make its
\* first step and two enqueued mimes can be bridged to the destination
C21_Witness ==
  /\ SearchReturned
  /\ searchResult.found
  /\ Len(searchResult.steps) = 2
  /\ \E i, j \in DOMAIN handlers :
       /\ i # j
       /\ Bridges(handlers[i], searchResult.steps[1].inputFormat.mime,
                  searchResult.steps[1].outputFormat.mime)
       /\ Bridges(handlers[j], searchResult.steps[1].inputFormat.mime,
                  searchResult.steps[1].outputFormat.mime)
  /\ \E p, q \in DOMAIN enqueued :
       /\ p < q
       /\ Edge(enqueued[p], outputFormat.mime)
       /\ Edge(enqueued[q], outputFormat.mime)

\* C23: during one search no mime is pushed on the queue twice, whichever
\* handlers and frontier nodes lead to it, the source and the destination
\* mime included; every mime pushed is in the visited set.
C23_EnqueuedOnce ==
  /\ \A p, q \in DOMAIN enqueued : p # q => enqueued[p] # enqueued[q]
  /\ \A p \in DOMAIN enqueued : enqueued[p] \in visited

\* C23 witness: a search that pushed the source mime, reached again from a
\* frontier node, and a mime that two registered ready handlers produce
C23_Witness ==
  /\ searchPc = "notfound"
  /\ \E p \in DOMAIN enqueued : enqueued[p] = inputFormat.mime
  /\ \E p \in DOMAIN enqueued, i, j \in DOMAIN handlers :
       /\ i # j
       /\ handlers[i].ready /\ handlers[j].ready
       /\ DeclaresTo(handlers[i], enqueued[p])
       /\ DeclaresTo(handlers[j], enqueued[p])

(***************************************************************************)
(* The registry and the executor as they run: initializeConverter and      *)
(* convert are async functions, and every await is a point where the       *)
(* other calls in flight may run.                                          *)
(***************************************************************************)
\* Math.round(num / den) for num >= 0, den > 0
Round(num, den) == (2 * num + den) \div (2 * den)

\* Math.round(((i + 0.5) / handlerClasses.length) * 100), j = i + 1
InitPercent(j, n) == Round((2 * j - 1) * 50, n)

\* mutant of StepPercent: the share of the steps done, not scaled into 10..90
StepPercentUnscaled(j, n) == Round(j * 100, n)

\* 10 + Math.round(((i + 1) / path.steps.length) * 80), j = i + 1
StepPercent(j, n) == 10 + Round(j * 80, n)

\* onProgress?.({stage, progress, message}) on the request's sink
Emit(r, stage, progress) ==
  [r EXCEPT !.progress = Append(@, [stage |-> stage, progress |-> progress])]

\* the events an initializeConverter call reports go to the request's sink
\* only for the call convert() makes, with its own onProgress
EmitFrom(c, r, stage, progress) ==
  IF c = "convert" THEN Emit(r, stage, progress) ELSE r

\* mutant of EnterInit: no early return, every call runs the initialization
EnterInitAlways(c, r) ==
  /\ handlers' = << >>
  /\ allFormats' = << >>
  /\ initCalls' = [initCalls EXCEPT ![c] = [pc |-> "await", i |-> 1]]
  /\ req' = EmitFrom(c, EmitFrom(c, r, "initializing", 0),
                     "initializing", InitPercent(1, Len(handlerClasses)))
  /\ UNCHANGED initialized

\* lines 86-110 of call c: the early return, or the resets and the first
\* pass of the loop up to await handler.init(); r is the request to leave
EnterInit(c, r) ==
  IF initialized /\ Len(allFormats) > 0
  THEN /\ initCalls' = [initCalls EXCEPT ![c] = [pc |-> "done", i |-> 0]]
       /\ req' = r
       /\ UNCHANGED << handlers, allFormats, initialized >>
  ELSE /\ handlers' = << >>
       /\ allFormats' = << >>
       /\ initCalls' = [initCalls EXCEPT ![c] = [pc |-> "await", i |-> 1]]
       /\ req' = EmitFrom(c, EmitFrom(c, r, "initializing", 0),
                          "initializing", InitPercent(1, Len(handlerClasses)))
       /\ UNCHANGED initialized

\* ConverterApp calls initializeConverter
InitStart ==
  /\ initCalls["app"].pc = "idle"
  /\ EnterInit("app", req)
  /\ UNCHANGED << handlerClasses, searchVars, ui >>

\* mutant of InitResume: the instance is put at the front of the list
InitResumeUnshift(c) ==
  /\ initCalls[c].pc = "await"
  /\ LET i == initCalls[c].i
         n == Len(handlerClasses)
         class == handlerClasses[i]
         pushed == IF class.init = "throws" THEN handlers
                   ELSE << Instance(class) >> \o handlers
         collected == IF class.init = "throws" THEN allFormats
                      ELSE CollectFormats(allFormats, class.supportedFormats, 1)
     IN IF i < n
        THEN /\ handlers' = pushed
             /\ allFormats' = collected
             /\ initCalls' = [initCalls EXCEPT ![c] = [pc |-> "await", i |-> i + 1]]
             /\ req' = EmitFrom(c, req, "initializing", InitPercent(i + 1, n))
             /\ UNCHANGED initialized
        ELSE /\ handlers' = pushed
             /\ allFormats' = SortFormats(collected)
             /\ initialized' = TRUE
             /\ initCalls' = [initCalls EXCEPT ![c] = [pc |-> "done", i |-> n]]
             /\ req' = EmitFrom(c, req, "initializing", 100)
  /\ UNCHANGED << handlerClasses, searchVars, ui >>

\* mutant of InitResume: the instance is pushed before its init() is awaited,
\* so that a handler whose init() raises stays on the list
InitResumePushFirst(c) ==
  /\ initCalls[c].pc = "await"
  /\ LET i == initCalls[c].i
         n == Len(handlerClasses)
         class == handlerClasses[i]
         pushed == Append(handlers, Instance(class))
         collected == IF class.init = "throws" THEN allFormats
                      ELSE CollectFormats(allFormats, class.supportedFormats, 1)
     IN IF i < n
        THEN /\ handlers' = pushed
             /\ allFormats' = collected
             /\ initCalls' = [initCalls EXCEPT ![c] = [pc |-> "await", i |-> i + 1]]
             /\ req' = EmitFrom(c, req, "initializing", InitPercent(i + 1, n))
             /\ UNCHANGED initialized
        ELSE /\ handlers' = pushed
             /\ allFormats' = SortFormats(collected)
             /\ initialized' = TRUE
             /\ initCalls' = [initCalls EXCEPT ![c] = [pc |-> "done", i |-> n]]
             /\ req' = EmitFrom(c, req, "initializing", 100)
  /\ UNCHANGED << handlerClasses, searchVars, ui >>

\* handler.init() of call c settles: lines 110-131 for class i, then either
\* the next pass up to its await, or lines 133-150; a call that returns
\* after its loop is done with i = n passes, one that returned at line 87
\* is done with i = 0
InitResume(c) ==
  /\ initCalls[c].pc = "await"
  /\ LET i == initCalls[c].i
         n == Len(handlerClasses)
         class == handlerClasses[i]
         pushed == IF class.init = "throws" THEN handlers
                   ELSE Append(handlers, Instance(class))
         collected == IF class.init = "throws" THEN allFormats
                      ELSE CollectFormats(allFormats, class.supportedFormats, 1)
     IN IF i < n
        THEN /\ handlers' = pushed
             /\ allFormats' = collected
             /\ initCalls' = [initCalls EXCEPT ![c] = [pc |-> "await", i |-> i + 1]]
             /\ req' = EmitFrom(c, req, "initializing", InitPercent(i + 1, n))
             /\ UNCHANGED initialized
        ELSE /\ handlers' = pushed
             /\ allFormats' = SortFormats(collected)
             /\ initialized' = TRUE
             /\ initCalls' = [initCalls EXCEPT ![c] = [pc |-> "done", i |-> n]]
             /\ req' = EmitFrom(c, req, "initializing", 100)
  /\ UNCHANGED << handlerClasses, searchVars, ui >>

(***************************************************************************)
(* convert().                                                              *)
(***************************************************************************)
\* String.prototype.toUpperCase on the format codes the handler classes use
ToUpperCase(format) ==
  CASE format = "png" -> "PNG"
    [] format = "jpeg" -> "JPEG"
    [] format = "jpg" -> "JPG"
    [] format = "ico" -> "ICO"
    [] format = "html" -> "HTML"
    [] format = "svg" -> "SVG"
    [] format = "pdf" -> "PDF"
    [] format = "gif" -> "GIF"
    [] format = "mp3" -> "MP3"
    [] format = "wav" -> "WAV"
    [] OTHER -> format

\* the File objects of a request: n files of distinct names and contents
FileName(k) == << "a.bin", "b.bin", "c.bin", "d.bin" >>[k]
InputFiles(n) ==
  [k \in 1..n |-> [name |-> FileName(k), bytes |-> [data |-> k, via |-> << >>]]]

\* { name: file.name, bytes: new Uint8Array(await file.arrayBuffer()) }
ReadFile(file) == [name |-> file.name, bytes |-> file.bytes]

\* what a handler's doConvert returns when it does not raise: one new
\* buffer per input file, marked with the handler's token of the output format
Converted(files, outFmt) ==
  [k \in 1..Len(files) |->
     [name |-> files[k].name,
      bytes |-> [data |-> files[k].bytes.data,
                 via |-> Append(files[k].bytes.via, outFmt.internal)]]]

\* the messages a rejected doConvert carries
ConversionErrors == {"Failed to load image", "Handler not initialized."}

Message(kind, step, error, from, to) ==
  [kind |-> kind, step |-> step, error |-> error, from |-> from, to |-> to]

\* supportedFormats?.find((f) => f.mime === mime && f.from): its index, 0 for undefined
FindInputFormat(formats, mime) ==
  IF \E k \in 1..Len(formats) : formats[k].mime = mime /\ formats[k].from
  THEN CHOOSE k \in 1..Len(formats) :
         /\ formats[k].mime = mime /\ formats[k].from
         /\ \A j \in 1..(k - 1) : ~(formats[j].mime = mime /\ formats[j].from)
  ELSE 0

\* mutant of FindOutputFormat: the first declaration that can be an output,
\* whatever its mime
FindOutputFormatAnyMime(formats, mime) ==
  IF \E k \in 1..Len(formats) : formats[k].to
  THEN CHOOSE k \in 1..Len(formats) :
         /\ formats[k].to
         /\ \A j \in 1..(k - 1) : ~formats[j].to
  ELSE 0

\* supportedFormats?.find((f) => f.mime === mime && f.to): its index, 0 for undefined
FindOutputFormat(formats, mime) ==
  IF \E k \in 1..Len(formats) : formats[k].mime = mime /\ formats[k].to
  THEN CHOOSE k \in 1..Len(formats) :
         /\ formats[k].mime = mime /\ formats[k].to
         /\ \A j \in 1..(k - 1) : ~(formats[j].mime = mime /\ formats[j].to)
  ELSE 0

\* the steps of a found path with each handler index replaced by the handler
\* object it refers to: convert() keeps references, not list positions
StepsOf(found, hs) ==
  [k \in 1..Len(found.steps) |->
     Step(hs[found.steps[k].handler], found.steps[k].inputFormat,
          found.steps[k].outputFormat)]

\* lines 338-343
IdentityResult(r) ==
  [r EXCEPT !.pc = "returned",
            !.result = [success |-> TRUE,
                        message |-> Message("already", 0, "", "", ""),
                        hasPath |-> TRUE,
                        path |-> << ToUpperCase(r.inputFormat.format) >>,
                        hasFiles |-> TRUE, files |-> r.currentFiles]]

\* mutant of NoRouteResult: the failure carries the source label as its path
NoRouteResultTraced(r) ==
  [r EXCEPT !.pc = "returned",
            !.result = [success |-> FALSE,
                        message |-> Message("noroute", 0, "",
                                            ToUpperCase(r.inputFormat.format),
                                            ToUpperCase(r.outputFormat.format)),
                        hasPath |-> TRUE,
                        path |-> << ToUpperCase(r.inputFormat.format) >>,
                        hasFiles |-> FALSE, files |-> << >>]]

\* lines 349-352
NoRouteResult(r) ==
  [r EXCEPT !.pc = "returned",
            !.result = [success |-> FALSE,
                        message |-> Message("noroute", 0, "",
                                            ToUpperCase(r.inputFormat.format),
                                            ToUpperCase(r.outputFormat.format)),
                        hasPath |-> FALSE, path |-> << >>,
                        hasFiles |-> FALSE, files |-> << >>]]

\* mutant of StepFailed: the catch returns no path
StepFailedUntraced(r, i, error) ==
  [r EXCEPT !.pc = "returned",
            !.result = [success |-> FALSE,
                        message |-> Message("failed", i, error, "", ""),
                        hasPath |-> FALSE, path |-> << >>,
                        hasFiles |-> FALSE, files |-> << >>]]

\* mutant of StepFailed: the failing step's output label is already on the list
StepFailedLabelled(r, i, error) ==
  [r EXCEPT !.pc = "returned",
            !.result = [success |-> FALSE,
                        message |-> Message("failed", i, error, "", ""),
                        hasPath |-> TRUE,
                        path |-> Append(r.pathFormats,
                                   ToUpperCase(r.path[i].outputFormat.format)),
                        hasFiles |-> FALSE, files |-> << >>]]

\* lines 404-411: the catch of step i
StepFailed(r, i, error) ==
  [r EXCEPT !.pc = "returned",
            !.result = [success |-> FALSE,
                        message |-> Message("failed", i, error, "", ""),
                        hasPath |-> TRUE, path |-> r.pathFormats,
                        hasFiles |-> FALSE, files |-> << >>]]

\* mutant of Succeeded: the result is returned without the complete event
SucceededSilent(r) ==
  [r EXCEPT
     !.pc = "returned",
     !.result = [success |-> TRUE,
                 message |-> Message("converted", 0, "", "",
                                     ToUpperCase(r.outputFormat.format)),
                 hasPath |-> TRUE, path |-> r.pathFormats,
                 hasFiles |-> TRUE, files |-> r.currentFiles]]

\* lines 414-425
Succeeded(r) ==
  [Emit(r, "complete", 100) EXCEPT
     !.pc = "returned",
     !.result = [success |-> TRUE,
                 message |-> Message("converted", 0, "", "",
                                     ToUpperCase(r.outputFormat.format)),
                 hasPath |-> TRUE, path |-> r.pathFormats,
                 hasFiles |-> TRUE, files |-> r.currentFiles]]

\* mutant of StartStep: doConvert is handed the step's descriptors, those
\* the route was discovered with, instead of the handler's own
StartStepCatalog(r, i) ==
  IF i > Len(r.path) THEN Succeeded(r)
  ELSE LET step == r.path[i]
           formats == step.handler.supportedFormats
           fin == FindInputFormat(formats, step.inputFormat.mime)
           fout == FindOutputFormat(formats, step.outputFormat.mime)
           r1 == Emit(r, "converting", StepPercent(i, Len(r.path)))
       IN IF fin = 0 \/ fout = 0
          THEN StepFailed(r1, i, "Format not supported by handler")
          ELSE [r1 EXCEPT !.pc = "convert", !.stepIndex = i,
                          !.calls = Append(@,
                             [step |-> i, handler |-> step.handler,
                              files |-> r.currentFiles,
                              inputFormat |-> step.inputFormat,
                              outputFormat |-> step.outputFormat,
                              status |-> "pending", output |-> << >>,
                              error |-> ""])]

\* lines 374-401 for step i (1-based): the loop test, the progress event, the
\* resolution of the handler's own formats and the call of doConvert
StartStep(r, i) ==
  IF i > Len(r.path) THEN Succeeded(r)
  ELSE LET step == r.path[i]
           formats == step.handler.supportedFormats
           fin == FindInputFormat(formats, step.inputFormat.mime)
           fout == FindOutputFormat(formats, step.outputFormat.mime)
           r1 == Emit(r, "converting", StepPercent(i, Len(r.path)))
       IN IF fin = 0 \/ fout = 0
          THEN StepFailed(r1, i, "Format not supported by handler")
          ELSE [r1 EXCEPT !.pc = "convert", !.stepIndex = i,
                          !.calls = Append(@,
                             [step |-> i, handler |-> step.handler,
                              files |-> r.currentFiles,
                              inputFormat |-> formats[fin],
                              outputFormat |-> formats[fout],
                              status |-> "pending", output |-> << >>,
                              error |-> ""])]

\* lines 372-374: pathFormats and the entry of the step loop
BeginSteps(r) ==
  StartStep([r EXCEPT !.pathFormats = << ToUpperCase(r.inputFormat.format) >>], 1)

\* mutant of SameFormat: the format codes are compared, not the mimes
SameFormatCode(inFmt, outFmt) == inFmt.format = outFmt.format

\* if (inputFormat.mime === outputFormat.mime)
SameFormat(inFmt, outFmt) == inFmt.mime = outFmt.mime

\* const path = findConversionPath(inputFormat, outputFormat): maxDepth = 3
DefaultMaxDepth == 3

\* lines 322-369 up to the first await: the routing event, the identity
\* shortcut, route discovery and the entry of a file loop
Route(r, hs) ==
  LET r0 == Emit(r, "converting", 0)
      found == FindConversionPath(hs, r.inputFormat, r.outputFormat, DefaultMaxDepth)
      r1 == [r0 EXCEPT !.routed = @ + 1]
      r2 == [Emit(r1, "converting", 10) EXCEPT !.path = StepsOf(found, hs)]
  IN IF SameFormat(r.inputFormat, r.outputFormat)
     THEN IF Len(r.files) = 0 THEN IdentityResult(r0)
          ELSE [r0 EXCEPT !.pc = "identity", !.fileIndex = 1]
     ELSE IF ~found.found THEN NoRouteResult(r1)
     ELSE IF Len(r.files) = 0 THEN BeginSteps(r2)
     ELSE [r2 EXCEPT !.pc = "load", !.fileIndex = 1]

\* the formats a caller picks from: the catalog one run of initializeConverter
\* over the configured classes offers
OfferedFormats == InitializeConverterRun(handlerClasses).allFormats

\* the last entry of the call log, updated
MarkCall(r, status, output, error) ==
  [r EXCEPT !.calls[Len(r.calls)] =
     [@ EXCEPT !.status = status, !.output = output, !.error = error]]

\* mutant of StepReturned: currentFiles keeps the files of the previous step
StepReturnedStale(r, output) ==
  StartStep([MarkCall(r, "returned", output, "") EXCEPT
               !.pathFormats = Append(@,
                  ToUpperCase(r.path[r.stepIndex].outputFormat.format))],
            r.stepIndex + 1)

\* mutant of StepReturned: the loop stops, with a failure result, when the
\* progress dialog has been closed or the files cleared meanwhile
StepReturnedCancellable(r, output) ==
  IF ui.modalOpen /\ ui.files.count > 0
  THEN StartStep([MarkCall(r, "returned", output, "") EXCEPT
                    !.currentFiles = output,
                    !.pathFormats = Append(@,
                       ToUpperCase(r.path[r.stepIndex].outputFormat.format))],
                 r.stepIndex + 1)
  ELSE StepFailed(MarkCall(r, "returned", output, ""), r.stepIndex, "cancelled")

\* lines 397-403 once doConvert has returned `output`, then the next pass of the loop
StepReturned(r, output) ==
  StartStep([MarkCall(r, "returned", output, "") EXCEPT
               !.currentFiles = output,
               !.pathFormats = Append(@,
                  ToUpperCase(r.path[r.stepIndex].outputFormat.format))],
            r.stepIndex + 1)

\* mutant of StepRaised: no catch, the error leaves convert() as a rejection
StepRaisedRethrow(r, error) ==
  [MarkCall(r, "raised", << >>, error) EXCEPT !.pc = "threw"]

\* mutant of StepRaised: the error is dropped and the loop goes on
StepRaisedContinue(r, error) ==
  StartStep(MarkCall(r, "raised", << >>, error), r.stepIndex + 1)

\* lines 404-411 once doConvert has raised `error`
StepRaised(r, error) ==
  StepFailed(MarkCall(r, "raised", << >>, error), r.stepIndex, error)

\* mutant of ConvertCall: a request that finds no route marks the registry
\* as not initialized, to have it rebuilt by the next request
ConvertCallInvalidating ==
  /\ req.pc = "idle"
  /\ \E n \in 0..MaxFiles, a \in 1..Len(OfferedFormats), b \in 1..Len(OfferedFormats) :
       LET r == [IdleRequest EXCEPT !.files = InputFiles(n),
                                    !.inputFormat = OfferedFormats[a],
                                    !.outputFormat = OfferedFormats[b]]
       IN IF ~initialized
          THEN EnterInit("convert", [r EXCEPT !.pc = "init"])
          ELSE /\ req' = Route(r, handlers)
               /\ initialized' = (Route(r, handlers).result.message.kind # "noroute")
               /\ UNCHANGED << handlers, allFormats, initCalls >>
  /\ UNCHANGED << handlerClasses, searchVars, ui >>

\* convert(files, inputFormat, outputFormat, onProgress) is called: lines
\* 318-320, and when the registry is initialized the code up to the first await
ConvertCall ==
  /\ req.pc = "idle"
  /\ \E n \in 0..MaxFiles, a \in 1..Len(OfferedFormats), b \in 1..Len(OfferedFormats) :
       LET r == [IdleRequest EXCEPT !.files = InputFiles(n),
                                    !.inputFormat = OfferedFormats[a],
                                    !.outputFormat = OfferedFormats[b]]
       IN IF ~initialized
          THEN EnterInit("convert", [r EXCEPT !.pc = "init"])
          ELSE /\ req' = Route(r, handlers)
               /\ UNCHANGED << handlers, allFormats, initialized, initCalls >>
  /\ UNCHANGED << handlerClasses, searchVars, ui >>

\* await initializeConverter(onProgress) resumes convert()
ConvertAfterInit ==
  /\ req.pc = "init"
  /\ initCalls["convert"].pc = "done"
  /\ req' = Route(req, handlers)
  /\ UNCHANGED << registryVars, initCalls, searchVars, ui >>

\* await file.arrayBuffer() settles in the identity shortcut: lines 331-343
ArrayBufferIdentity ==
  /\ req.pc = "identity"
  /\ LET r1 == [req EXCEPT !.currentFiles =
                             Append(@, ReadFile(req.files[req.fileIndex]))]
     IN req' = IF req.fileIndex < Len(req.files)
               THEN [r1 EXCEPT !.fileIndex = @ + 1]
               ELSE IdentityResult(r1)
  /\ UNCHANGED << registryVars, initCalls, searchVars, ui >>

\* await file.arrayBuffer() settles while loading the input: lines 363-369
ArrayBufferLoad ==
  /\ req.pc = "load"
  /\ LET r1 == [req EXCEPT !.currentFiles =
                             Append(@, ReadFile(req.files[req.fileIndex]))]
     IN req' = IF req.fileIndex < Len(req.files)
               THEN [r1 EXCEPT !.fileIndex = @ + 1]
               ELSE BeginSteps(r1)
  /\ UNCHANGED << registryVars, initCalls, searchVars, ui >>

\* the doConvert in flight returns its files
DoConvertReturns ==
  /\ req.pc = "convert"
  /\ req' = StepReturned(req, Converted(req.calls[Len(req.calls)].files,
                                        req.calls[Len(req.calls)].outputFormat))
  /\ UNCHANGED << registryVars, initCalls, searchVars, ui >>

\* the doConvert in flight raises
DoConvertRaises ==
  /\ req.pc = "convert"
  /\ \E error \in ConversionErrors : req' = StepRaised(req, error)
  /\ UNCHANGED << registryVars, initCalls, searchVars, ui >>

Init ==
  /\ \E r \in Registries(NumHandlers) : handlerClasses = ClassesOf(r)
  /\ handlers = << >>
  /\ allFormats = << >>
  /\ initialized = FALSE
  /\ InitCallsIdle
  /\ req = IdleRequest
  /\ SearchIdle
  /\ ui = UiIdle

Next ==
  \/ InitStart
  \/ \E c \in InitCallers : InitResume(c)
  \/ ConvertCall
  \/ ConvertAfterInit
  \/ ArrayBufferIdentity
  \/ ArrayBufferLoad
  \/ DoConvertReturns
  \/ DoConvertRaises

Spec == Init /\ [][Next]_vars

(***************************************************************************)
(* initializeConverter called again after a call has returned, over        *)
(* registries whose initialization may leave the catalog empty.            *)
(***************************************************************************)
\* ImageMagickHandler where window is undefined: init() returns at once, with
\* ready false and supportedFormats still empty
ImageMagickOnServer == HandlerClass("ImageMagick", << >>, "notready")

\* canvasToBlob, the handler whose init() raises, and ImageMagick on a server
ReinitClassPool ==
  << HandlerClassPool[1], HandlerClassPool[7], ImageMagickOnServer >>

\* 1..ReinitHandlers distinct classes of ReinitClassPool in any order
ReinitRegistries ==
  UNION { { [i \in 1..n |-> ReinitClassPool[r[i]]] :
              r \in { q \in [1..n -> 1..Len(ReinitClassPool)] :
                        \A i, j \in 1..n : i # j => q[i] # q[j] } } :
          n \in 1..ReinitHandlers }

InitReinit ==
  /\ handlerClasses \in ReinitRegistries
  /\ handlers = << >>
  /\ allFormats = << >>
  /\ initialized = FALSE
  /\ InitCallsIdle
  /\ req = IdleRequest
  /\ SearchIdle
  /\ ui = UiIdle

\* ConverterApp is mounted again and calls initializeConverter once more
InitAgain ==
  /\ initCalls["app"].pc = "done"
  /\ EnterInit("app", req)
  /\ UNCHANGED << handlerClasses, searchVars, ui >>

NextReinit == Next \/ InitAgain

SpecReinit == InitReinit /\ [][NextReinit]_vars

(***************************************************************************)
(* The catalog queries and ConverterApp: the file and format selection,    *)
(* the progress dialog, and the convert() request the app makes.           *)
(***************************************************************************)
\* a lookup that compares the mime as given
NormalizeMimeTypeIdentity(mime) == mime

\* normalizeMimeType: the alias table
NormalizeMimeType(mime) ==
  CASE mime = "audio/x-wav" -> "audio/wav"
    [] mime = "audio/vnd.wave" -> "audio/wav"
    [] mime = "image/x-icon" -> "image/vnd.microsoft.icon"
    [] mime = "image/qoi" -> "image/x-qoi"
    [] mime = "video/bink" -> "video/vnd.radgamettools.bink"
    [] mime = "video/binka" -> "audio/vnd.radgamettools.bink"
    [] OTHER -> mime

\* allFormats.find((f) => f.mime === normalizedMime): the first entry, or
\* undefined (found = FALSE)
FindFormatByMime(formats, mime) ==
  LET normalizedMime == NormalizeMimeType(mime)
      hits == { a \in DOMAIN formats : formats[a].mime = normalizedMime }
  IN IF hits = {}
     THEN [found |-> FALSE, format |-> NoFormat]
     ELSE [found |-> TRUE,
           format |-> formats[CHOOSE a \in hits : \A b \in hits : a <= b]]

\* allFormats.filter((f) => f.from), allFormats.filter((f) => f.to)
GetInputFormats(formats) == SelectSeq(formats, LAMBDA f : f.from)
GetOutputFormats(formats) == SelectSeq(formats, LAMBDA f : f.to)

\* CanvasToBlobHandler: its png, jpeg, gif and ico declarations
CanvasToBlobWithGif ==
  HandlerClass("canvasToBlob",
    << Fmt("Portable Network Graphics", "png", "png", "image/png", TRUE, TRUE, "png", "image"),
       Fmt("JPEG Image", "jpeg", "jpg", "image/jpeg", TRUE, TRUE, "jpeg", "image"),
       Fmt("GIF Animation", "gif", "gif", "image/gif", TRUE, FALSE, "gif", "image"),
       Fmt("ICO Icon", "ico", "ico", "image/x-icon", TRUE, FALSE, "ico", "image") >>,
    "ready")

\* FFmpegHandler after init() in a browser: gif, mp3 and wav of commonFormats
FFmpegLoaded ==
  HandlerClass("FFmpeg",
    << Fmt("Animated GIF", "gif", "gif", "image/gif", TRUE, TRUE, "gif", "image"),
       Fmt("MP3 Audio", "mp3", "mp3", "audio/mpeg", TRUE, TRUE, "mp3", "audio"),
       Fmt("WAV Audio", "wav", "wav", "audio/wav", TRUE, TRUE, "wav", "audio") >>,
    "ready")

\* the two classes above, htmlToSvg and svgRaster
UiClassPool ==
  << CanvasToBlobWithGif, FFmpegLoaded, HandlerClassPool[2], HandlerClassPool[3] >>

\* UiHandlers distinct classes of UiClassPool in any order
UiRegistries ==
  { [i \in 1..UiHandlers |-> UiClassPool[r[i]]] :
      r \in { q \in [1..UiHandlers -> 1..Len(UiClassPool)] :
                \A i, j \in 1..UiHandlers : i # j => q[i] # q[j] } }

\* File.type of the first selected file: the aliases of the table, two
\* canonical mimes, and the empty string of a file of unknown type
FileTypes ==
  { "audio/x-wav", "audio/vnd.wave", "image/x-icon", "image/qoi", "video/bink",
    "video/binka", "audio/wav", "image/png", "" }

\* handleFilesSelected: keeps the files and, when the first file declares a
\* type, selects the catalog format findFormatByMime returns for it if that
\* format can be an input
HandleFilesSelected ==
  /\ initialized
  /\ \E n \in 1..MaxFiles, type \in FileTypes :
       LET matchingFormat == FindFormatByMime(allFormats, type)
       IN ui' = [ui EXCEPT
            !.files = [count |-> n, type |-> type],
            !.lookup = IF type = "" THEN @
                       ELSE [mime |-> type, found |-> matchingFormat.found,
                             format |-> matchingFormat.format],
            !.inputFormat =
               IF type # "" /\ matchingFormat.found /\ matchingFormat.format.from
               THEN matchingFormat.format ELSE @]
  /\ UNCHANGED << registryVars, initCalls, req, searchVars >>

\* FormatSelector "Convert from": onSelect = setInputFormat over the
\* formats with from set
SelectInput ==
  /\ initialized
  /\ \E a \in DOMAIN GetInputFormats(allFormats) :
       ui' = [ui EXCEPT !.inputFormat = GetInputFormats(allFormats)[a]]
  /\ UNCHANGED << registryVars, initCalls, req, searchVars >>

\* FormatSelector "Convert to": onSelect = setOutputFormat over the formats
\* with to set
SelectOutput ==
  /\ initialized
  /\ \E a \in DOMAIN GetOutputFormats(allFormats) :
       ui' = [ui EXCEPT !.outputFormat = GetOutputFormats(allFormats)[a]]
  /\ UNCHANGED << registryVars, initCalls, req, searchVars >>

\* handleClearFiles
HandleClearFiles ==
  /\ ui.files.count > 0
  /\ ui' = [ui EXCEPT !.files = [count |-> 0, type |-> ""],
                      !.inputFormat = NoFormat, !.outputFormat = NoFormat]
  /\ UNCHANGED << registryVars, initCalls, req, searchVars >>

\* canConvert
CanConvert ==
  /\ ui.files.count > 0
  /\ ui.inputFormat # NoFormat
  /\ ui.outputFormat # NoFormat

\* handleConvert up to its await: opens the dialog and calls convert() with
\* the files and formats selected at that moment; the converter is
\* initialized, so convert() goes straight to route discovery
HandleConvert ==
  /\ CanConvert
  /\ initialized
  /\ req.pc = "idle"
  /\ ui' = [ui EXCEPT !.modalOpen = TRUE]
  /\ req' = Route([IdleRequest EXCEPT !.files = InputFiles(ui.files.count),
                                      !.inputFormat = ui.inputFormat,
                                      !.outputFormat = ui.outputFormat],
                  handlers)
  /\ UNCHANGED << registryVars, initCalls, searchVars >>

\* ConversionModal onClose: setModalOpen(false)
CloseModal ==
  /\ ui.modalOpen
  /\ ui' = [ui EXCEPT !.modalOpen = FALSE]
  /\ UNCHANGED << registryVars, initCalls, req, searchVars >>

\* the app once its mount effect has initialized the converter
InitLookup ==
  /\ \E classes \in UiRegistries :
       /\ handlerClasses = classes
       /\ handlers = InitializeConverterRun(classes).handlers
       /\ allFormats = InitializeConverterRun(classes).allFormats
  /\ initialized = TRUE
  /\ InitCallsIdle
  /\ req = IdleRequest
  /\ SearchIdle
  /\ ui = UiIdle

\* the user selecting files and formats
NextLookup ==
  \/ HandleFilesSelected
  \/ SelectInput
  \/ SelectOutput
  \/ HandleClearFiles

SpecLookup == InitLookup /\ [][NextLookup]_vars

\* the app with a selection made: files of undeclared type dropped, and an
\* input and an output format picked from the two selectors
InitUi ==
  /\ \E classes \in UiRegistries :
       /\ handlerClasses = classes
       /\ handlers = InitializeConverterRun(classes).handlers
       /\ allFormats = InitializeConverterRun(classes).allFormats
  /\ initialized = TRUE
  /\ InitCallsIdle
  /\ req = IdleRequest
  /\ SearchIdle
  /\ \E n \in 1..MaxFiles, a \in DOMAIN GetInputFormats(allFormats),
        b \in DOMAIN GetOutputFormats(allFormats) :
       ui = [UiIdle EXCEPT !.files = [count |-> n, type |-> ""],
                           !.inputFormat = GetInputFormats(allFormats)[a],
                           !.outputFormat = GetOutputFormats(allFormats)[b]]

\* the request the app makes, and what the user can do while it is in flight
NextUi ==
  \/ HandleConvert
  \/ CloseModal
  \/ SelectOutput
  \/ HandleClearFiles
  \/ ArrayBufferIdentity
  \/ ArrayBufferLoad
  \/ DoConvertReturns
  \/ DoConvertRaises

SpecUi == InitUi /\ [][NextUi]_vars

(***************************************************************************)
(* convert() over registries whose capability graph has routes of up to    *)
(* four steps and two format codes under image/jpeg.                       *)
(***************************************************************************)
\* pdfToHtml, htmlToSvg, svgRaster, canvasToBlob and SvgHandler
ChainClassPool ==
  << HandlerClassPool[6], HandlerClassPool[2], HandlerClassPool[3],
     HandlerClassPool[1], SvgHandlerClass >>

\* ChainHandlers distinct classes of ChainClassPool in any order
ChainRegistries ==
  { [i \in 1..ChainHandlers |-> ChainClassPool[r[i]]] :
      r \in { q \in [1..ChainHandlers -> 1..Len(ChainClassPool)] :
                \A i, j \in 1..ChainHandlers : i # j => q[i] # q[j] } }

\* the converter once initializeConverter has run over such a registry
InitChain ==
  /\ \E classes \in ChainRegistries :
       /\ handlerClasses = classes
       /\ handlers = InitializeConverterRun(classes).handlers
       /\ allFormats = InitializeConverterRun(classes).allFormats
  /\ initialized = TRUE
  /\ InitCallsIdle
  /\ req = IdleRequest
  /\ SearchIdle
  /\ ui = UiIdle

NextChain ==
  \/ ConvertCall
  \/ ArrayBufferIdentity
  \/ ArrayBufferLoad
  \/ DoConvertReturns
  \/ DoConvertRaises

SpecChain == InitChain /\ [][NextChain]_vars

(***************************************************************************)
(* Claims on the catalog and on convert().                                 *)
(***************************************************************************)
SamePair(f, g) == f.mime = g.mime /\ f.format = g.format

DeclaresPair(h, f) ==
  \E k \in DOMAIN h.supportedFormats : SamePair(h.supportedFormats[k], f)

\* the first declaration of f's (mime, format) pair by h
DeclarationOf(h, f) ==
  h.supportedFormats[CHOOSE k \in DOMAIN h.supportedFormats :
      /\ SamePair(h.supportedFormats[k], f)
      /\ \A j \in 1..(k - 1) : ~SamePair(h.supportedFormats[j], f)]

\* C6: once initializeConverter has completed, the catalog holds no two
\* descriptors with the same (mime, format) pair, and each descriptor is the
\* declaration of the earliest registered handler (in the order of the
\* handler list) that declares its pair.
C6_FirstRegisteredWins ==
  initialized =>
    /\ \A a, b \in DOMAIN allFormats :
         a # b => ~SamePair(allFormats[a], allFormats[b])
    /\ \A a \in DOMAIN allFormats :
         \E i \in DOMAIN handlers :
           /\ DeclaresPair(handlers[i], allFormats[a])
           /\ \A j \in 1..(i - 1) : ~DeclaresPair(handlers[j], allFormats[a])
           /\ allFormats[a] = DeclarationOf(handlers[i], allFormats[a])

\* C6 witness: initialization completed with two registered handlers that
\* declare one pair differently, and the catalog holds an entry for it
C6_Witness ==
  /\ initialized
  /\ \E c \in InitCallers : initCalls[c].pc = "done"
  /\ \E i, j \in DOMAIN handlers, a \in DOMAIN allFormats :
       /\ i < j
       /\ DeclaresPair(handlers[i], allFormats[a])
       /\ DeclaresPair(handlers[j], allFormats[a])
       /\ DeclarationOf(handlers[i], allFormats[a])
            # DeclarationOf(handlers[j], allFormats[a])

Returned == req.pc = "returned"

\* C7: a request whose source and destination have the same mime returns
\* success with one output per input file, same names and bytes in the same
\* order, the one-element label list of the upper-cased source code, and it
\* discovers no route and invokes no doConvert.
C7_IdentityShortcut ==
  (Returned /\ req.inputFormat.mime = req.outputFormat.mime) =>
    /\ req.result.success
    /\ req.result.hasFiles
    /\ Len(req.result.files) = Len(req.files)
    /\ \A k \in DOMAIN req.files :
         /\ req.result.files[k].name = req.files[k].name
         /\ req.result.files[k].bytes = req.files[k].bytes
    /\ req.result.hasPath
    /\ req.result.path = << ToUpperCase(req.inputFormat.format) >>
    /\ req.routed = 0
    /\ req.calls = << >>

\* C7 witness: two files came back from a request between two descriptors of
\* one mime that differ in their format code
C7_Witness ==
  /\ Returned
  /\ req.inputFormat.mime = req.outputFormat.mime
  /\ req.inputFormat.format # req.outputFormat.format
  /\ Len(req.result.files) = 2

\* C8: when steps 1..i-1 succeed and step i fails, convert() returns
\* success=false, no files, exactly i labels (the source label, then the
\* output labels of steps 1..i-1) and a message naming step i and carrying
\* the error's message.
C8_PartialFailure ==
  (Returned /\ Len(req.calls) > 0
     /\ req.calls[Len(req.calls)].status = "raised") =>
    LET i == Len(req.calls) IN
    /\ \A k \in 1..(i - 1) : req.calls[k].status = "returned"
    /\ req.result.success = FALSE
    /\ req.result.hasFiles = FALSE
    /\ req.result.hasPath
    /\ Len(req.result.path) = i
    /\ req.result.path[1] = ToUpperCase(req.inputFormat.format)
    /\ \A k \in 1..(i - 1) :
         req.result.path[k + 1] = ToUpperCase(req.path[k].outputFormat.format)
    /\ req.result.message.kind = "failed"
    /\ req.result.message.step = i
    /\ req.result.message.error = req.calls[i].error

\* C8 witness: step 1 of a two-step path returned and step 2 raised
C8_Witness ==
  /\ Returned
  /\ Len(req.path) = 2
  /\ Len(req.calls) = 2
  /\ req.calls[1].status = "returned"
  /\ req.calls[2].status = "raised"

\* C9: within one request the doConvert calls are those of steps 1, 2, ...
\* in order, each step at most once; a call that raised is the last call of
\* the request, and the request has then returned its failure.
C9_AbortOnFirstFailure ==
  \A k \in DOMAIN req.calls :
    /\ req.calls[k].step = k
    /\ k <= Len(req.path)
    /\ req.calls[k].status = "raised" =>
         /\ k = Len(req.calls)
         /\ Returned
         /\ req.result.success = FALSE

\* C9 witness: step 1 of a two-step path raised and the request returned
C9_Witness ==
  /\ Returned
  /\ Len(req.path) = 2
  /\ Len(req.calls) = 1
  /\ req.calls[1].status = "raised"

\* C10: step 1 is handed the loaded input files, step i+1 is invoked only
\* after step i has returned and is handed exactly the files step i
\* returned, and at most one doConvert of the request is in flight.
C10_StrictSequencing ==
  /\ \A k \in DOMAIN req.calls :
       /\ k = 1 => req.calls[k].files = [j \in DOMAIN req.files |-> ReadFile(req.files[j])]
       /\ k > 1 => /\ req.calls[k - 1].status = "returned"
                   /\ req.calls[k].files = req.calls[k - 1].output
  /\ Cardinality({ k \in DOMAIN req.calls : req.calls[k].status = "pending" }) <= 1

\* C10 witness: step 2 is in flight on the two files step 1 returned
C10_Witness ==
  /\ req.pc = "convert"
  /\ Len(req.calls) = 2
  /\ req.calls[2].status = "pending"
  /\ Len(req.calls[2].files) = 2
  /\ req.calls[2].files # req.calls[1].files

\* every doConvert of the request has returned, one per step of the path
AllStepsReturned ==
  /\ Len(req.path) >= 1
  /\ Len(req.calls) = Len(req.path)
  /\ \A k \in DOMAIN req.calls : req.calls[k].status = "returned"

CompleteEvent == [stage |-> "complete", progress |-> 100]

\* C11: when every step of an n-step path has succeeded, convert() has emitted
\* the event (complete, 100) once, as its last event, and returns success
\* with the files the last step returned and n+1 labels: the upper-cased
\* source code, then the upper-cased output code of each step in order, the
\* last being the destination's; no complete event is emitted before that.
C11_SuccessResult ==
  /\ (Returned /\ AllStepsReturned) =>
       LET n == Len(req.path) IN
       /\ req.result.success
       /\ req.result.hasFiles
       /\ req.result.files = req.calls[n].output
       /\ req.result.hasPath
       /\ Len(req.result.path) = n + 1
       /\ req.result.path[1] = ToUpperCase(req.inputFormat.format)
       /\ \A k \in 1..n :
            req.result.path[k + 1] = ToUpperCase(req.path[k].outputFormat.format)
       /\ req.result.path[n + 1] = ToUpperCase(req.outputFormat.format)
       /\ req.progress[Len(req.progress)] = CompleteEvent
       /\ Cardinality({ e \in DOMAIN req.progress :
                          req.progress[e].stage = "complete" }) = 1
  /\ (\E e \in DOMAIN req.progress : req.progress[e].stage = "complete") =>
       (Returned /\ AllStepsReturned)

\* C11 witness: HTML -> SVG -> PNG succeeded on two files
C11_Witness ==
  /\ Returned
  /\ AllStepsReturned
  /\ req.result.path = << "HTML", "SVG", "PNG" >>
  /\ Len(req.result.files) = 2

\* route discovery of the request ran and returned null
NoRouteFound ==
  /\ req.inputFormat.mime # req.outputFormat.mime
  /\ req.routed = 1
  /\ Len(req.path) = 0

\* the result of lines 349-352, as the caller sees it
IsNoRouteResult ==
  /\ Returned
  /\ req.result.success = FALSE
  /\ req.result.hasPath = FALSE
  /\ req.result.hasFiles = FALSE
  /\ req.result.message.kind = "noroute"
  /\ req.calls = << >>

\* C12: when source and destination mimes differ and route discovery finds
\* no path within the hop bound, convert() returns success=false with no
\* path, no files and the no-route message, and invokes no doConvert; in
\* particular so when the registry the request ran on, built by the
\* request's own initialization or before it, has no route of 1..3 steps.
C12_NoRouteResult ==
  /\ NoRouteFound => IsNoRouteResult
  /\ (Returned /\ req.inputFormat.mime # req.outputFormat.mime
        /\ initCalls["app"].pc = "idle"
        /\ ShortestHops(req.inputFormat.mime, req.outputFormat.mime)
             \notin 1..DefaultMaxDepth) => IsNoRouteResult

\* C12 witness: a request with two files between mimes no route joins
C12_Witness ==
  /\ NoRouteFound
  /\ Returned
  /\ Len(req.files) = 2
  /\ initCalls["app"].pc = "idle"
  /\ ShortestHops(req.inputFormat.mime, req.outputFormat.mime) = 0

\* C13 as stated: every result with success=false, from a routing failure or
\* a step failure, carries a defined, non-empty path label list.
C13_EveryFailureTraced ==
  (Returned /\ req.result.success = FALSE) =>
    (req.result.hasPath /\ Len(req.result.path) >= 1)

\* C13 amended: every result with success=false caused by a step failure
\* carries a defined, non-empty path label list starting with the source
\* label; the result of a routing failure carries no path.
C13_StepFailureTraced ==
  (Returned /\ req.result.success = FALSE) =>
    IF Len(req.path) >= 1
    THEN /\ req.result.hasPath
         /\ Len(req.result.path) >= 1
         /\ req.result.path[1] = ToUpperCase(req.inputFormat.format)
    ELSE req.result.hasPath = FALSE

\* C13 witness: the first step of a found path failed and the result
\* carries the source label alone
C13_Witness ==
  /\ Returned
  /\ req.result.success = FALSE
  /\ Len(req.path) >= 1
  /\ req.result.message.step = 1
  /\ req.result.path = << ToUpperCase(req.inputFormat.format) >>

\* C14: a request never ends in a thrown exception or rejected promise
\* because of a routing failure or a raising doConvert: once route discovery
\* has failed, or a doConvert has raised, the request has returned a result
\* with success=false.
C14_FailuresReturned ==
  /\ req.pc \in {"idle", "init", "identity", "load", "convert", "returned"}
  /\ NoRouteFound => (Returned /\ req.result.success = FALSE)
  /\ (\E k \in DOMAIN req.calls : req.calls[k].status = "raised") =>
       (Returned /\ req.result.success = FALSE)

\* C14 witness: the second step of a path raised "Handler not initialized."
\* and the request returned its failure
C14_Witness ==
  /\ Returned
  /\ Len(req.calls) = 2
  /\ req.calls[2].status = "raised"
  /\ req.calls[2].error = "Handler not initialized."
  /\ req.result.success = FALSE

\* no initializeConverter call is between its resets and its return
InitQuiescent ==
  /\ initialized
  /\ \A c \in InitCallers : initCalls[c].pc # "await"

\* C15: a configured handler whose construction or init raises is never in
\* the handler list, none of its declarations is a catalog entry, and it is
\* the handler of no step of a discovered route; initialization completes
\* all the same, and once it has, every other configured handler is
\* registered.
C15_InitFailureIsolated ==
  /\ \A i \in DOMAIN handlerClasses :
       handlerClasses[i].init = "throws" =>
         /\ \A j \in DOMAIN handlers : handlers[j].name # handlerClasses[i].name
         /\ \A a \in DOMAIN allFormats :
              \A k \in DOMAIN handlerClasses[i].supportedFormats :
                allFormats[a] # handlerClasses[i].supportedFormats[k]
         /\ \A k \in DOMAIN req.path :
              req.path[k].handler.name # handlerClasses[i].name
  /\ \A c \in InitCallers : initCalls[c].pc = "done" => initialized
  /\ InitQuiescent =>
       \A i \in DOMAIN handlerClasses :
         handlerClasses[i].init # "throws" =>
           \E j \in DOMAIN handlers :
             /\ handlers[j].name = handlerClasses[i].name
             /\ handlers[j].supportedFormats = handlerClasses[i].supportedFormats

\* C15 witness: the first configured handler raised, initialization has
\* completed, and a route through the second handler was discovered
C15_Witness ==
  /\ InitQuiescent
  /\ handlerClasses[1].init = "throws"
  /\ Len(handlers) = 1
  /\ handlers[1].name = handlerClasses[2].name
  /\ Len(allFormats) >= 1
  /\ Len(req.path) = 1

\* C17: after initializeConverter has completed, every catalog descriptor
\* has its (mime, format) pair declared by at least one registered handler
\* that is ready, and no catalog descriptor is the declaration of a handler
\* whose init returned without making it ready.
C17_CatalogFromReadyHandlers ==
  InitQuiescent =>
    \A a \in DOMAIN allFormats :
      /\ \E j \in DOMAIN handlers :
           handlers[j].ready = TRUE /\ DeclaresPair(handlers[j], allFormats[a])
      /\ \A j \in DOMAIN handlers :
           handlers[j].ready = FALSE =>
             \A k \in DOMAIN handlers[j].supportedFormats :
               allFormats[a] # handlers[j].supportedFormats[k]

\* call c of initializeConverter is made in this step, after some call has
\* run to completion
LaterCall(c) ==
  /\ \E d \in InitCallers : initCalls[d].pc = "done" /\ initCalls[d].i > 0
  /\ initCalls[c].pc \in {"idle", "done"}
  /\ initCalls'[c] # initCalls[c]

\* the call made in this step returned at once and changed nothing
ReturnedExisting(c) ==
  /\ initCalls'[c].pc = "done"
  /\ handlers' = handlers
  /\ allFormats' = allFormats
  /\ initialized' = initialized

\* C18 as stated: once a call has run to completion, every later call
\* returns the existing catalog and changes nothing, whatever the first run
\* left, an empty catalog included.
C18_IdempotentAlways ==
  [][\A c \in InitCallers : LaterCall(c) => ReturnedExisting(c)]_vars

\* C18 amended: once a call has run to completion and the catalog is not
\* empty, every later call returns the existing catalog and changes nothing:
\* no handler is constructed or initialized again, handler list and catalog
\* are unchanged.
C18_IdempotentNonEmpty ==
  [][\A c \in InitCallers :
       (LaterCall(c) /\ Len(allFormats) > 0) => ReturnedExisting(c)]_vars

\* C18 witness: after a completed run that registered a handler and left a
\* catalog, the app's later call has returned at line 87
C18_Witness ==
  /\ initCalls["app"] = [pc |-> "done", i |-> 0]
  /\ initCalls["convert"].pc = "idle"
  /\ initialized
  /\ Len(handlers) >= 1
  /\ Len(allFormats) >= 1

\* a step of the convert() request taken on an initialized registry by
\* convert() itself, not by an initializeConverter call
ConvertStepOnInitialized ==
  /\ initialized
  /\ req' # req
  /\ initCalls' = initCalls

\* C19: whatever its outcome, a convert() request on an initialized
\* registry leaves the handler list, the catalog and the initialized flag
\* as they are, so that route discovery has the same registry to read on a
\* later request.
C19_RegistryUntouched ==
  [][ConvertStepOnInitialized =>
       /\ handlers' = handlers
       /\ allFormats' = allFormats
       /\ initialized' = initialized]_vars

\* C19 witness: a request made after the app's initialization had completed
\* failed at a step, and the registry is the one that initialization built
C19_Witness ==
  /\ Returned
  /\ initCalls["convert"].pc = "idle"
  /\ initCalls["app"].pc = "done"
  /\ req.result.success = FALSE
  /\ Len(req.calls) >= 1
  /\ initialized
  /\ handlers = InitializeConverterRun(handlerClasses).handlers
  /\ allFormats = InitializeConverterRun(handlerClasses).allFormats

\* f is the first element of formats with the given mime that satisfies flag
FirstOwn(formats, f, mime, flag(_)) ==
  \E k \in DOMAIN formats :
    /\ formats[k] = f
    /\ f.mime = mime
    /\ flag(f)
    /\ \A j \in 1..(k - 1) : ~(formats[j].mime = mime /\ flag(formats[j]))

IsFrom(f) == f.from = TRUE
IsTo(f) == f.to = TRUE

\* C20: every doConvert is invoked on the handler of its step, with the
\* first element of that handler's own supportedFormats that has the step's
\* input mime and from=true, and the first that has the step's output mime
\* and to=true.
C20_OwnDescriptors ==
  \A k \in DOMAIN req.calls :
    LET call == req.calls[k]
        step == req.path[call.step]
    IN /\ call.handler = step.handler
       /\ FirstOwn(call.handler.supportedFormats, call.inputFormat,
                   step.inputFormat.mime, IsFrom)
       /\ FirstOwn(call.handler.supportedFormats, call.outputFormat,
                   step.outputFormat.mime, IsTo)

\* C20 witness: a doConvert was invoked with descriptors of its handler that
\* both differ from the descriptors the request was made with
C20_Witness ==
  /\ Len(req.path) = 1
  /\ Len(req.calls) = 1
  /\ req.calls[1].inputFormat # req.inputFormat
  /\ req.calls[1].outputFormat # req.outputFormat

\* p = 10 + round(80 * i / n), round being to the nearest integer, halves up
IsStepPercent(p, i, n) ==
  /\ 2 * n * (p - 10) <= 160 * i + n
  /\ 160 * i + n < 2 * n * (p - 10 + 1)

\* the position of the routing event (converting, 10) in the request's log,
\* 0 when it has not been delivered
RoutedEventAt ==
  IF \E e \in DOMAIN req.progress :
       req.progress[e] = [stage |-> "converting", progress |-> 10]
  THEN CHOOSE e \in DOMAIN req.progress :
         req.progress[e] = [stage |-> "converting", progress |-> 10]
  ELSE 0

\* C24: every progress event of a request has a percentage in 0..100, and
\* for every doConvert invoked, that of step i of n, the i-th event after
\* the routing event has been delivered by then, with stage converting and
\* percentage 10 + round(80 * i / n), above 10 and at most 90.
C24_ProgressBeforeStep ==
  /\ \A e \in DOMAIN req.progress :
       /\ req.progress[e].progress >= 0
       /\ req.progress[e].progress <= 100
  /\ \A k \in DOMAIN req.calls :
       /\ RoutedEventAt > 0
       /\ RoutedEventAt + k <= Len(req.progress)
       /\ LET event == req.progress[RoutedEventAt + k] IN
            /\ event.stage = "converting"
            /\ IsStepPercent(event.progress, k, Len(req.path))
            /\ event.progress > 10
            /\ event.progress <= 90

\* C24 witness: the second doConvert of a two-step path has just been
\* invoked, after the events of 50 and 90 percent and, before them, the
\* events of the request's own initialization
C24_Witness ==
  /\ req.pc = "convert"
  /\ Len(req.calls) = 2
  /\ req.progress[1].stage = "initializing"
  /\ req.progress[Len(req.progress) - 1] = [stage |-> "converting", progress |-> 50]
  /\ req.progress[Len(req.progress)] = [stage |-> "converting", progress |-> 90]

\* the configured classes among the first `upto` whose init does not raise
Initializable(upto) ==
  { i \in 1..upto : handlerClasses[i].init # "throws" }

\* the j-th of them in registration order
NthInitializable(upto, j) ==
  CHOOSE i \in Initializable(upto) :
    Cardinality({ x \in Initializable(upto) : x < i }) = j - 1

\* the handler list holds exactly the handlers of the first `upto` classes
\* that initialized, one instance each, in registration order
RegisteredInOrder(upto) ==
  /\ Len(handlers) = Cardinality(Initializable(upto))
  /\ \A j \in DOMAIN handlers :
       /\ handlers[j].name = handlerClasses[NthInitializable(upto, j)].name
       /\ handlers[j].supportedFormats =
            handlerClasses[NthInitializable(upto, j)].supportedFormats

\* call c is the only initializeConverter call made so far
SingleCall(c) ==
  /\ initCalls[c].pc # "idle"
  /\ \A d \in InitCallers \ {c} : initCalls[d].pc = "idle"

\* C25: while a single initializeConverter call awaits the init of handler
\* i, exactly the handlers before i that initialized are registered, in
\* registration order, so no init starts before the previous one has
\* settled; when the call finishes the list holds all that initialized, in
\* registration order.
C25_OneAtATimeInOrder ==
  \A c \in InitCallers :
    SingleCall(c) =>
      /\ initCalls[c].pc = "await" =>
           /\ initCalls[c].i \in 1..Len(handlerClasses)
           /\ RegisteredInOrder(initCalls[c].i - 1)
      /\ initCalls[c].pc = "done" =>
           /\ initCalls[c].i = Len(handlerClasses)
           /\ RegisteredInOrder(Len(handlerClasses))

\* C25 witness: the app's call, the only one made, has finished and two
\* handlers are registered
C25_Witness ==
  /\ SingleCall("app")
  /\ initCalls["app"].pc = "done"
  /\ Len(handlers) = 2

\* convert() runs findConversionPath in this step
RouteDiscoveryStep == req'.routed = req.routed + 1

\* every configured handler that initializes is in the handler list, and the
\* catalog holds a descriptor for each pair it declares
RegistryComplete ==
  \A i \in DOMAIN handlerClasses :
    handlerClasses[i].init # "throws" =>
      /\ \E j \in DOMAIN handlers : handlers[j].name = handlerClasses[i].name
      /\ \A k \in DOMAIN handlerClasses[i].supportedFormats :
           \E a \in DOMAIN allFormats :
             SamePair(allFormats[a], handlerClasses[i].supportedFormats[k])

\* C26: whenever convert() runs findConversionPath, the handler list and the
\* catalog it reads contain every configured handler that initializes,
\* overlapping initializeConverter calls included.
C26_RouteSeesCompleteRegistry ==
  [][RouteDiscoveryStep => RegistryComplete]_vars

\* all initializeConverter calls made have completed, and one was made
AllInitCallsCompleted ==
  /\ \A c \in InitCallers : initCalls[c].pc \in {"idle", "done"}
  /\ \E c \in InitCallers : initCalls[c].pc = "done"

\* C28: once all initializeConverter calls have completed, overlapping ones
\* included, the handler list holds exactly one instance of each configured
\* handler that initialized, in registration order, and the catalog is the
\* one a single sequential initialization builds.
C28_OverlapSettles ==
  AllInitCallsCompleted =>
    /\ RegisteredInOrder(Len(handlerClasses))
    /\ allFormats = InitializeConverterRun(handlerClasses).allFormats

\* the alias table as the claim lists it: alias, canonical mime
AliasTable ==
  { << "audio/x-wav", "audio/wav" >>,
    << "audio/vnd.wave", "audio/wav" >>,
    << "image/x-icon", "image/vnd.microsoft.icon" >>,
    << "image/qoi", "image/x-qoi" >>,
    << "video/bink", "video/vnd.radgamettools.bink" >>,
    << "video/binka", "audio/vnd.radgamettools.bink" >> }

CanonicalOf(mime) ==
  IF \E p \in AliasTable : p[1] = mime
  THEN (CHOOSE p \in AliasTable : p[1] = mime)[2]
  ELSE mime

\* the first catalog entry with exactly this mime, if any
FirstWithMime(mime) ==
  IF \E a \in DOMAIN allFormats : allFormats[a].mime = mime
  THEN [found |-> TRUE,
        format |-> allFormats[CHOOSE a \in DOMAIN allFormats :
                     /\ allFormats[a].mime = mime
                     /\ \A b \in 1..(a - 1) : allFormats[b].mime # mime]]
  ELSE [found |-> FALSE, format |-> NoFormat]

\* C22: findFormatByMime of an alias returns what the lookup of its
\* canonical mime returns; the result of the lookup handleFilesSelected
\* made is the first catalog entry whose mime is the normalized query, or
\* undefined when there is none; the catalog is the one initialization built.
C22_AliasLookup ==
  /\ \A p \in AliasTable :
       FindFormatByMime(allFormats, p[1]) = FindFormatByMime(allFormats, p[2])
  /\ ui.lookup.mime # "" =>
       /\ [found |-> ui.lookup.found, format |-> ui.lookup.format] =
            FirstWithMime(CanonicalOf(ui.lookup.mime))
       /\ ui.lookup.found =>
            \E a \in DOMAIN allFormats :
              /\ allFormats[a] = ui.lookup.format
              /\ allFormats[a].mime = CanonicalOf(ui.lookup.mime)
  /\ allFormats = InitializeConverterRun(handlerClasses).allFormats

\* C22 witness: a file of type audio/x-wav was selected and the lookup
\* returned the catalog's audio/wav entry, now the selected input format
C22_Witness ==
  /\ ui.lookup.mime = "audio/x-wav"
  /\ ui.lookup.found
  /\ ui.lookup.format.mime = "audio/wav"
  /\ ui.inputFormat = ui.lookup.format

\* some declaration of f's pair before declaration k of handler j, in
\* registration order, has the flag false
EarlierDeclaresWithout(j, k, flag(_)) ==
  \E j2 \in DOMAIN handlers :
    \E k2 \in DOMAIN handlers[j2].supportedFormats :
      /\ j2 < j \/ (j2 = j /\ k2 < k)
      /\ SamePair(handlers[j2].supportedFormats[k2], handlers[j].supportedFormats[k])
      /\ ~flag(handlers[j2].supportedFormats[k2])

\* the list holds a descriptor for f's pair
Lists(list, f) == \E a \in DOMAIN list : SamePair(list[a], f)

\* C29 as stated: every pair a ready registered handler declares with
\* to = true is in getOutputFormats(), and every pair one declares with
\* from = true is in getInputFormats(), whatever earlier handlers declare.
C29_FlagsComplete ==
  \A j \in DOMAIN handlers :
    handlers[j].ready =>
      \A k \in DOMAIN handlers[j].supportedFormats :
        LET f == handlers[j].supportedFormats[k]
        IN /\ f.to => Lists(GetOutputFormats(allFormats), f)
           /\ f.from => Lists(GetInputFormats(allFormats), f)

\* C29 amended: a pair a ready registered handler declares with to = true
\* (from = true) is in getOutputFormats() (getInputFormats()) unless an
\* earlier declaration of the pair has the flag false; the first declaration
\* of a pair decides: when it has the flag false the pair is not listed.
C29_FlagsOfFirstDeclaration ==
  \A j \in DOMAIN handlers :
    \A k \in DOMAIN handlers[j].supportedFormats :
      LET f == handlers[j].supportedFormats[k]
          first == \A j2 \in DOMAIN handlers :
                     \A k2 \in DOMAIN handlers[j2].supportedFormats :
                       (j2 < j \/ (j2 = j /\ k2 < k)) =>
                         ~SamePair(handlers[j2].supportedFormats[k2], f)
      IN /\ (handlers[j].ready /\ f.to /\ ~EarlierDeclaresWithout(j, k, IsTo))
              => Lists(GetOutputFormats(allFormats), f)
         /\ (handlers[j].ready /\ f.from /\ ~EarlierDeclaresWithout(j, k, IsFrom))
              => Lists(GetInputFormats(allFormats), f)
         /\ (first /\ ~f.to) => ~Lists(GetOutputFormats(allFormats), f)
         /\ (first /\ ~f.from) => ~Lists(GetInputFormats(allFormats), f)

\* C29 witness: FFmpeg, registered first, declares gif as an output and
\* canvasToBlob after it does not; the user has picked gif in the output
\* selector
C29_Witness ==
  /\ Len(handlers) = 2
  /\ handlers[1].name = "FFmpeg"
  /\ handlers[2].name = "canvasToBlob"
  /\ ui.outputFormat.format = "gif"
  /\ ui.outputFormat.mime = "image/gif"

\* C30: findFormatByMime of the mime of any catalog entry returns a
\* descriptor.
C30_CatalogMimesFound ==
  \A a \in DOMAIN allFormats :
    FindFormatByMime(allFormats, allFormats[a].mime).found

\* convert() is executing a path: reading the input files, or awaiting the
\* doConvert of a step
ExecutingPath == req.pc \in {"load", "convert"} /\ Len(req.path) >= 1

\* the request ended in Failed(at i): the steps before i returned, and step
\* i raised or was refused before its doConvert
FailedAt(i) ==
  /\ req.result.success = FALSE
  /\ i \in 1..Len(req.path)
  /\ \A k \in 1..(i - 1) : req.calls[k].status = "returned"
  /\ \/ Len(req.calls) = i /\ req.calls[i].status = "raised"
     \/ Len(req.calls) = i - 1

\* C27: a request that has started executing a path ends only in Succeeded,
\* every step's doConvert invoked and returned, or in Failed(at i); while it
\* is in flight it can always take its next step, whatever the dialog and
\* the selection are, and closing the dialog, picking another format or
\* clearing the files changes nothing of the request.
C27_NoCancellation ==
  /\ [](/\ (Returned /\ Len(req.path) >= 1) =>
             \/ req.result.success /\ AllStepsReturned
             \/ \E i \in 1..Len(req.path) : FailedAt(i)
        /\ (req.pc = "load" /\ Len(req.path) >= 1) => ENABLED ArrayBufferLoad
        /\ req.pc = "convert" =>
             (ENABLED DoConvertReturns /\ ENABLED DoConvertRaises))
  /\ [][(ExecutingPath /\ ui' # ui) => req' = req]_vars
  /\ [][(ExecutingPath /\ req' # req) =>
          \/ req'.pc = "returned"
          \/ req'.pc = "load" /\ req'.fileIndex = req.fileIndex + 1
          \/ req'.pc = "convert" /\ Len(req'.calls) = Len(req.calls) + 1]_vars

\* C27 witness: the two-step route HTML -> SVG -> PNG succeeded, both
\* doConvert calls invoked, with the dialog closed and the files cleared
\* after the request had started
C27_Witness ==
  /\ Returned
  /\ Len(req.path) = 2
  /\ Len(req.calls) = 2
  /\ req.result.success
  /\ ~ui.modalOpen
  /\ ui.files.count = 0

\* the executor's lookups of lines 386-391 both find a descriptor for step k
\* of the discovered path
StepResolves(k) ==
  LET step == req.path[k]
      formats == step.handler.supportedFormats
  IN /\ FindInputFormat(formats, step.inputFormat.mime) # 0
     /\ FindOutputFormat(formats, step.outputFormat.mime) # 0

\* C31: every step of a path findConversionPath produced resolves to the
\* handler's own descriptors, no request returns the failure "Format not
\* supported by handler", and every step the loop reached has its doConvert
\* call.
C31_ResolutionSucceeds ==
  /\ \A k \in DOMAIN req.path : StepResolves(k)
  /\ Returned => req.result.message.error # "Format not supported by handler"
  /\ req.pc = "convert" => Len(req.calls) = req.stepIndex

\* C31 witness: the second step of a two-step path resolved its descriptors
\* and its doConvert is in flight
C31_Witness ==
  /\ req.pc = "convert"
  /\ Len(req.path) = 2
  /\ req.stepIndex = 2
  /\ Len(req.calls) = 2
  /\ req.calls[2].status = "pending"

\* C32: the percentages of the events one convert() request delivers to its
\* sink never decrease, the forwarded initialization events included.
C32_ProgressNonDecreasing ==
  \A e \in 1..(Len(req.progress) - 1) :
    req.progress[e].progress <= req.progress[e + 1].progress

\* C33: the last event of a returned request is a complete event when the
\* result is a success and an error event when it is a failure, and a
\* failed request has emitted no complete event.
C33_LastEventMatchesResult ==
  Returned =>
    /\ Len(req.progress) >= 1
    /\ req.result.success =>
         req.progress[Len(req.progress)].stage = "complete"
    /\ ~req.result.success =>
         /\ req.progress[Len(req.progress)].stage = "error"
         /\ \A e \in DOMAIN req.progress : req.progress[e].stage # "complete"

\* C34: no request invokes more than 3 doConvert calls or executes a path
\* of more than 3 steps, no result carries more than 4 path labels, and a
\* request whose destination is 4 or more steps from its source returns
\* the no-route failure.
C34_DefaultHopBound ==
  /\ Len(req.calls) <= 3
  /\ Len(req.path) <= 3
  /\ req.result.hasPath => Len(req.result.path) <= 4
  /\ (Returned /\ req.inputFormat.mime # req.outputFormat.mime
        /\ ShortestHops(req.inputFormat.mime, req.outputFormat.mime) >= 4)
       => IsNoRouteResult

\* C34 witness: the destination is four steps from the source and the
\* request returned the no-route failure
C34_Witness ==
  /\ Returned
  /\ req.inputFormat.mime # req.outputFormat.mime
  /\ ShortestHops(req.inputFormat.mime, req.outputFormat.mime) = 4
  /\ IsNoRouteResult

\* C35 as stated: the output descriptor of the last step's doConvert has
\* the format code of the requested destination, and the input descriptor
\* of the first step's has the format code of the requested source.
C35_EndpointFormatCodes ==
  \A k \in DOMAIN req.calls :
    /\ req.calls[k].step = Len(req.path) =>
         req.calls[k].outputFormat.format = req.outputFormat.format
    /\ req.calls[k].step = 1 =>
         req.calls[k].inputFormat.format = req.inputFormat.format

\* C35 amended: the output descriptor of the last step's doConvert has the
\* mime of the requested destination and can be an output, and the input
\* descriptor of the first step's has the mime of the requested source and
\* can be an input; both are declarations of the step's handler.
C35_EndpointMimes ==
  \A k \in DOMAIN req.calls :
    LET call == req.calls[k] IN
    /\ call.step = Len(req.path) =>
         /\ call.outputFormat.mime = req.outputFormat.mime
         /\ call.outputFormat.to
         /\ \E d \in DOMAIN call.handler.supportedFormats :
              call.handler.supportedFormats[d] = call.outputFormat
    /\ call.step = 1 =>
         /\ call.inputFormat.mime = req.inputFormat.mime
         /\ call.inputFormat.from
         /\ \E d \in DOMAIN call.handler.supportedFormats :
              call.handler.supportedFormats[d] = call.inputFormat

\* C35 witness: jpeg was requested as the destination and the last step's
\* doConvert was handed the handler's jpg descriptor, of the same mime
C35_Witness ==
  /\ req.outputFormat.format = "jpeg"
  /\ Len(req.calls) = Len(req.path)
  /\ Len(req.calls) >= 1
  /\ req.calls[Len(req.calls)].outputFormat.format = "jpg"
  /\ req.calls[Len(req.calls)].outputFormat.mime = "image/jpeg"

====
